---- MODULE Spec2Model ----
(***************************************************************************)
(* Commit analytics aggregation engine of gh-productivity.                 *)
(*                                                                         *)
(*   extract.py            normalize_author, analyze_commit_messages,      *)
(*                         score_commit_message, follows_conventional_...  *)
(*                         analyze_developer_productivity, main            *)
(*   web_dashboard.py      filter_commits_by_period,                       *)
(*                         _aggregate_productivity_from_commits,           *)
(*                         create_enhanced_charts (daily grid), main       *)
(*   misc/period_stats.py  load_commits_df, daily_timeseries_last_7,       *)
(*                         weekly_timeseries_last_4, main                  *)
(*   generate_productivity.py  generate_productivity_csv                   *)
(*                                                                         *)
(* Conventions of the model                                                *)
(*   - a string of the program is a sequence of one-character strings      *)
(*     when its characters matter (commit messages), a TLA+ string when    *)
(*     only its identity matters (author names, period names);             *)
(*   - a score is an integer number of half points (5.0 is 10);            *)
(*   - a timestamp is an integer number of hours since 1970-01-01T00:00Z,  *)
(*     a calendar day is an integer number of days since 1970-01-01;       *)
(*   - a rate (percentage with one decimal) is an integer number of        *)
(*     tenths of a percent;                                                *)
(*   - Python's None is the empty sequence, a value v is <<v>>.            *)
(***************************************************************************)
EXTENDS Integers, Sequences, FiniteSets, TLC

VARIABLES
    cfg,        \* the configuration module (config.py) the run imports
    phase,      \* position of the run: "extract", "csv", "crashed", "loaded"
    fetched,    \* raw commits handed to analyze_commit_messages
    combined,   \* extract.main's combined_commits / the commit-analysis CSV
    out,        \* result of the last call or report
    message,    \* argument of the last score_commit_message call
    score,      \* outcome of the last score_commit_message call
    filter_df,      \* loaded commit table a report or the period filter works on
    filter_period,  \* period name handed to the period filter
    calls           \* the calls made so far on one object, oldest first:
                    \* each with its argument, what it returned and what it
                    \* left in the caller's table

vars == <<cfg, phase, fetched, combined, out, message, score,
          filter_df, filter_period, calls>>

(***************************************************************************)
(* Bounds                                                                  *)
(***************************************************************************)
MaxLen == 4          \* longest message enumerated exhaustively
MaxCommits == 3      \* raw commits fetched in one run of the pipeline
MaxRows == 3         \* rows of a commit table handed to the period filter

(***************************************************************************)
(* Generic helpers                                                         *)
(***************************************************************************)
Range(s) == {s[i] : i \in DOMAIN s}

Min(a, b) == IF a <= b THEN a ELSE b

Max(a, b) == IF a >= b THEN a ELSE b

SeqsUpTo(S, n) == UNION {[1..k -> S] : k \in 0..n}

RECURSIVE SumSeq(_)
SumSeq(s) == IF s = <<>> THEN 0 ELSE Head(s) + SumSeq(Tail(s))

None == <<>>

(***************************************************************************)
(* Python str operations used by the scorer                                *)
(***************************************************************************)
UpperLetters == <<"A","B","C","D","E","F","G","H","I","J","K","L","M",
                  "N","O","P","Q","R","S","T","U","V","W","X","Y","Z">>

LowerLetters == <<"a","b","c","d","e","f","g","h","i","j","k","l","m",
                  "n","o","p","q","r","s","t","u","v","w","x","y","z">>

Digits == {"0","1","2","3","4","5","6","7","8","9"}

\* str.isupper() of a one-character string
isupper(c) == c \in Range(UpperLetters)

lower_char(c) ==
    IF isupper(c)
    THEN LowerLetters[CHOOSE i \in DOMAIN UpperLetters : UpperLetters[i] = c]
    ELSE c

\* str.lower()
lower(m) == [i \in DOMAIN m |-> lower_char(m[i])]

\* w in m  (substring test on str)
contains(m, w) ==
    \E i \in 0..(Len(m) - Len(w)) : SubSeq(m, i + 1, i + Len(w)) = w

\* m.startswith(w)
startswith(m, w) == Len(m) >= Len(w) /\ SubSeq(m, 1, Len(w)) = w

\* the issue reference looked for at the start of the message only (re.match)
has_issue_ref_match(m) == Len(m) >= 2 /\ m[1] = "#" /\ m[2] \in Digits

\* re.search(r'#\d+', m)
has_issue_ref(m) ==
    \E i \in 1..(Len(m) - 1) : m[i] = "#" /\ m[i + 1] \in Digits

(***************************************************************************)
(* Configuration (config.py).  The scoring fields are read by              *)
(* score_commit_message, the author fields by GitHubAnalyzer.__init__ and  *)
(* the dashboards.  CONVENTIONAL_COMMIT_PATTERN holds the commit types of  *)
(* the pattern  ^(type|...)(\(.+\))?: .+                                   *)
(***************************************************************************)
Config(base, minlen, goodlen, vague) ==
    [QUALITY_BASE_SCORE |-> base,
     QUALITY_MIN_LENGTH |-> minlen,
     QUALITY_GOOD_LENGTH |-> goodlen,
     VAGUE_WORDS |-> vague,
     CONVENTIONAL_COMMIT_PATTERN |-> {<<"f">>, <<"f", "e", "a", "t">>},
     EXCLUDED_AUTHORS |-> {"dependabot[bot]"},
     AUTHOR_MAPPING |-> [a \in {"Developer One", "dev1@company.com"} |-> "developer1"],
     CORE_TEAM |-> {"developer1", "developer2"}]

\* configurations the scorer is run under: base 0.0, 5.0, 10.0; thresholds
\* in the usual order (min <= good) and reversed, and the pair 10 / 30 of
\* the example scenarios; a lower-case, an upper-case and no vague word
ScoreConfigs ==
    {Config(b, t[1], t[2], v) :
        b \in {0, 10, 20},
        t \in {<<1, 3>>, <<2, 2>>, <<3, 1>>, <<10, 30>>},
        v \in {{}, {<<"f">>}, {<<"F">>}}}

\* configuration of the pipeline runs
PipelineConfig == Config(10, 2, 3, {<<"w">>})

Alphabet == {"F", "f", ":", " ", "#", "1"}

ExtraMessages ==
    {<<"f", "(", "f", ")", ":", " ", "F">>,
     <<"f", "(", ")", ":", " ", "f">>,
     <<"F", "(", "1", ")", ")", ":", " ", "#", "1">>,
     <<"f", "(", "#", "1", ")", ")", ":", " ", "f", "#">>}

\* "fix"
FixMessage == <<"f", "i", "x">>

\* "feat(auth): add OAuth login (#123)"
FeatMessage ==
    <<"f", "e", "a", "t", "(", "a", "u", "t", "h", ")", ":", " ",
      "a", "d", "d", " ", "O", "A", "u", "t", "h", " ",
      "l", "o", "g", "i", "n", " ", "(", "#", "1", "2", "3", ")">>

ExampleMessages == {FixMessage, FeatMessage}

Messages == SeqsUpTo(Alphabet, MaxLen) \cup ExtraMessages \cup ExampleMessages

(***************************************************************************)
(* extract.py: the commit scorer                                           *)
(***************************************************************************)
\* re.match(r'^(t1|t2|...)(\(.+\))?: .+', m) for the type set `types`
re_match_conventional(types, m) ==
    \E t \in types :
        /\ startswith(m, t)
        /\ LET r == SubSeq(m, Len(t) + 1, Len(m))
               tail_ok(k) ==      \* r[k..] is ": " followed by one character or more
                   /\ Len(r) >= k + 2
                   /\ r[k] = ":"
                   /\ r[k + 1] = " "
           IN \/ tail_ok(1)
              \/ /\ Len(r) >= 3
                 /\ r[1] = "("
                 /\ \E j \in 3..Len(r) : r[j] = ")" /\ tail_ok(j + 1)

follows_conventional_commits(m) ==
    re_match_conventional(cfg.CONVENTIONAL_COMMIT_PATTERN, m)

Returned(v) == [exc |-> "none", val |-> v]

Raised(e) == [exc |-> e, val |-> 0]

NotCalled == [exc |-> "not called", val |-> 0]

\* score_commit_message with the length checks as two separate ifs
score_commit_message_two_ifs(m) ==
    LET s0 == cfg.QUALITY_BASE_SCORE
        s1 == (IF Len(m) < cfg.QUALITY_MIN_LENGTH THEN s0 - 4 ELSE s0)
              + (IF Len(m) > cfg.QUALITY_GOOD_LENGTH THEN 2 ELSE 0)
        s2 == IF \E w \in cfg.VAGUE_WORDS : contains(lower(m), w)
              THEN s1 - 2 ELSE s1
        s3 == IF has_issue_ref(m) THEN s2 + 2 ELSE s2
        s4 == IF follows_conventional_commits(m) THEN s3 + 4 ELSE s3
    IN  IF Len(m) = 0
        THEN Raised("IndexError")
        ELSE LET s5 == IF isupper(m[1]) THEN s4 + 1 ELSE s4
             IN  Returned(Min(20, Max(0, s5)))

\* score_commit_message starting from a base that grows with the calls made
\* before, as if the score were kept on the analyzer between calls
score_commit_message_carried_over(m) ==
    LET s0 == cfg.QUALITY_BASE_SCORE + Len(calls)
        s1 == IF Len(m) < cfg.QUALITY_MIN_LENGTH THEN s0 - 4
              ELSE IF Len(m) > cfg.QUALITY_GOOD_LENGTH THEN s0 + 2
              ELSE s0
        s2 == IF \E w \in cfg.VAGUE_WORDS : contains(lower(m), w)
              THEN s1 - 2 ELSE s1
        s3 == IF has_issue_ref(m) THEN s2 + 2 ELSE s2
        s4 == IF follows_conventional_commits(m) THEN s3 + 4 ELSE s3
    IN  IF Len(m) = 0
        THEN Raised("IndexError")
        ELSE LET s5 == IF isupper(m[1]) THEN s4 + 1 ELSE s4
             IN  Returned(Min(20, Max(0, s5)))

\* score_commit_message taking three points, not two, off a short message
score_commit_message_short_by_three(m) ==
    LET s0 == cfg.QUALITY_BASE_SCORE
        s1 == IF Len(m) < cfg.QUALITY_MIN_LENGTH THEN s0 - 6
              ELSE IF Len(m) > cfg.QUALITY_GOOD_LENGTH THEN s0 + 2
              ELSE s0
        s2 == IF \E w \in cfg.VAGUE_WORDS : contains(lower(m), w)
              THEN s1 - 2 ELSE s1
        s3 == IF has_issue_ref(m) THEN s2 + 2 ELSE s2
        s4 == IF follows_conventional_commits(m) THEN s3 + 4 ELSE s3
    IN  IF Len(m) = 0
        THEN Raised("IndexError")
        ELSE LET s5 == IF isupper(m[1]) THEN s4 + 1 ELSE s4
             IN  Returned(Min(20, Max(0, s5)))

\* score_commit_message taking one point, not two, off a short message
score_commit_message_short_by_one(m) ==
    LET s0 == cfg.QUALITY_BASE_SCORE
        s1 == IF Len(m) < cfg.QUALITY_MIN_LENGTH THEN s0 - 2
              ELSE IF Len(m) > cfg.QUALITY_GOOD_LENGTH THEN s0 + 2
              ELSE s0
        s2 == IF \E w \in cfg.VAGUE_WORDS : contains(lower(m), w)
              THEN s1 - 2 ELSE s1
        s3 == IF has_issue_ref(m) THEN s2 + 2 ELSE s2
        s4 == IF follows_conventional_commits(m) THEN s3 + 4 ELSE s3
    IN  IF Len(m) = 0
        THEN Raised("IndexError")
        ELSE LET s5 == IF isupper(m[1]) THEN s4 + 1 ELSE s4
             IN  Returned(Min(20, Max(0, s5)))

score_commit_message(m) ==
    LET s0 == cfg.QUALITY_BASE_SCORE
        s1 == IF Len(m) < cfg.QUALITY_MIN_LENGTH THEN s0 - 4
              ELSE IF Len(m) > cfg.QUALITY_GOOD_LENGTH THEN s0 + 2
              ELSE s0
        s2 == IF \E w \in cfg.VAGUE_WORDS : contains(lower(m), w)
              THEN s1 - 2 ELSE s1
        s3 == IF has_issue_ref(m) THEN s2 + 2 ELSE s2
        s4 == IF follows_conventional_commits(m) THEN s3 + 4 ELSE s3
    IN  IF Len(m) = 0
        THEN Raised("IndexError")                  \* message[0] on ''
        ELSE LET s5 == IF isupper(m[1]) THEN s4 + 1 ELSE s4
             IN  Returned(Min(20, Max(0, s5)))

(***************************************************************************)
(* extract.py: identity resolution and analyze_commit_messages             *)
(*                                                                         *)
(* A raw commit (one element of the GitHub API's answer) is                *)
(*   [sha, name, date, message, stats]   with stats None or <<[additions,  *)
(*   deletions, total]>> (commit.get('stats', {})).                        *)
(***************************************************************************)
\* normalize_author with the exclusion test left out
normalize_author_no_exclusion(author_name) ==
    IF author_name \in DOMAIN cfg.AUTHOR_MAPPING
    THEN <<cfg.AUTHOR_MAPPING[author_name]>>
    ELSE <<author_name>>

\* normalize_author with the exclusion test applied to the mapped name
normalize_author_exclude_mapped(author_name) ==
    LET mapped == IF author_name \in DOMAIN cfg.AUTHOR_MAPPING
                  THEN cfg.AUTHOR_MAPPING[author_name]
                  ELSE author_name
    IN  IF mapped \in cfg.EXCLUDED_AUTHORS THEN None ELSE <<mapped>>

normalize_author(author_name) ==
    IF author_name \in cfg.EXCLUDED_AUTHORS
    THEN None
    ELSE IF author_name \in DOMAIN cfg.AUTHOR_MAPPING
         THEN <<cfg.AUTHOR_MAPPING[author_name]>>
         ELSE <<author_name>>

\* message.startswith('Merge'), message.startswith('Revert')
is_merge(m) == startswith(m, <<"M", "e", "r", "g", "e">>)

is_revert(m) == startswith(m, <<"R", "e", "v", "e", "r", "t">>)

\* 'hotfix' in message.lower() or 'urgent' in message.lower()
is_hotfix(m) ==
    \/ contains(lower(m), <<"h", "o", "t", "f", "i", "x">>)
    \/ contains(lower(m), <<"u", "r", "g", "e", "n", "t">>)

\* 'BREAKING CHANGE' in message or
\* ('!' in message.split(':')[0] if ':' in message else False)
has_breaking_change(m) ==
    \/ contains(m, <<"B", "R", "E", "A", "K", "I", "N", "G", " ",
                     "C", "H", "A", "N", "G", "E">>)
    \/ /\ \E i \in DOMAIN m : m[i] = ":"
       /\ LET c == CHOOSE i \in DOMAIN m :
                       m[i] = ":" /\ \A j \in 1..(i - 1) : m[j] # ":"
          IN  \E j \in 1..(c - 1) : m[j] = "!"

\* len(message.split())
message_words(m) ==
    Cardinality({i \in DOMAIN m : m[i] # " " /\ (i = 1 \/ m[i - 1] = " ")})

\* pd.to_datetime(date).hour, .dayofweek (Monday = 0), and the calendar day
HourOf(ts) == ts % 24

DayOf(ts) == ts \div 24

WeekdayOf(day) == (day + 3) % 7

\* stats.get(key, 0) for stats = commit.get('stats', {})
stats_get(c, key) == IF c.stats = None THEN 0 ELSE c.stats[1][key]

\* the dict analyze_commit_messages appends for one commit
analysis_row(c, normalized_author, quality) ==
    [sha |-> c.sha,
     author |-> normalized_author,
     original_author |-> c.name,
     date |-> c.date,
     message |-> c.message,
     quality_score |-> quality,
     message_length |-> Len(c.message),
     has_issue_ref |-> has_issue_ref(c.message),
     follows_convention |-> follows_conventional_commits(c.message),
     is_merge |-> is_merge(c.message),
     is_revert |-> is_revert(c.message),
     is_hotfix |-> is_hotfix(c.message),
     additions |-> stats_get(c, "additions"),
     deletions |-> stats_get(c, "deletions"),
     total_changes |-> stats_get(c, "total"),
     commit_hour |-> HourOf(c.date),
     commit_weekday |-> WeekdayOf(DayOf(c.date)),
     message_words |-> message_words(c.message),
     has_breaking_change |-> has_breaking_change(c.message)]

\* the keys the loop reads from every commit before anything else
RequiredFields == {"message", "name", "date"}

\* the loop of analyze_commit_messages: the rows appended for commits[i..],
\* or the exception raised on the first commit that lacks a key or whose
\* score_commit_message call fails
RECURSIVE analyze_from(_, _)
analyze_from(commits, i) ==
    IF i > Len(commits) THEN Returned(<<>>)
    ELSE IF ~(RequiredFields \subseteq DOMAIN commits[i])
    THEN Raised("KeyError")        \* commit['commit']['message'] and the like
    ELSE LET c == commits[i]
             normalized_author == normalize_author(c.name)
         IN  IF normalized_author = None
             THEN analyze_from(commits, i + 1)
             ELSE LET q == score_commit_message(c.message)
                  IN  IF q.exc # "none" THEN q
                      ELSE LET rest == analyze_from(commits, i + 1)
                           IN  IF rest.exc # "none" THEN rest
                               ELSE Returned(<<analysis_row(c, normalized_author[1], q.val)>>
                                             \o rest.val)

analyze_commit_messages(commits) == analyze_from(commits, 1)

(***************************************************************************)
(* The commit-analysis CSV and its loaders                                 *)
(*   extract.main writes combined_commits with DataFrame.to_csv: a bool    *)
(*   column is written as the strings True / False.  read_csv parses such  *)
(*   a column back as bool; the loaders then map the column through        *)
(*   {'TRUE': 1, 'FALSE': 0}, fill the misses with 0 and cast to int.      *)
(*   A parsed cell is [t |-> "bool" or "str", s |-> its text].             *)
(***************************************************************************)
to_csv_bool(b) == IF b THEN "True" ELSE "False"

read_csv_cell(text) ==
    IF text \in {"True", "False"}
    THEN [t |-> "bool", s |-> text]
    ELSE [t |-> "str", s |-> text]

\* Series.map({'TRUE': 1, 'FALSE': 0}).fillna(0).astype(int) on one cell
map_true_false(cell) ==
    IF cell.t = "str" /\ cell.s = "TRUE" THEN 1
    ELSE IF cell.t = "str" /\ cell.s = "FALSE" THEN 0
    ELSE 0

load_flag(b) == map_true_false(read_csv_cell(to_csv_bool(b)))

\* DataFrame.to_csv of one row of combined_commits: the cells of the flag
\* columns as the text a csv reader gets (the integer columns are written
\* in decimal and parse back to the same integers)
to_csv_row(r) ==
    [r EXCEPT !.has_issue_ref = to_csv_bool(@),
              !.follows_convention = to_csv_bool(@),
              !.is_merge = to_csv_bool(@),
              !.is_revert = to_csv_bool(@),
              !.is_hotfix = to_csv_bool(@),
              !.has_breaking_change = to_csv_bool(@)]

\* combined_commits.to_csv(config.COMMIT_ANALYSIS_FILE, index=False)
commit_analysis_csv(rows) == [i \in DOMAIN rows |-> to_csv_row(rows[i])]

\* one row of the DataFrame web_dashboard.main works on
load_row(r) ==
    [r EXCEPT !.has_issue_ref = load_flag(@),
              !.follows_convention = load_flag(@),
              !.is_merge = load_flag(@),
              !.is_revert = load_flag(@),
              !.is_hotfix = load_flag(@),
              !.has_breaking_change = load_flag(@)]

\* web_dashboard.main: read_csv, flag columns, timezone dropped (the dates
\* extract.py wrote are UTC, so the instant is kept)
load_commits(rows) == [i \in DOMAIN rows |-> load_row(rows[i])]

\* period_stats.load_commits_df: the same plus date_day, the first ten
\* characters of the ISO date parsed as a date
load_commits_df(rows) ==
    [i \in DOMAIN rows |->
        load_row(rows[i]) @@ [date_day |-> DayOf(rows[i].date)]]

\* commits[commits['author'].isin(config.CORE_TEAM)]
core_team_only(df) == SelectSeq(df, LAMBDA r : r.author \in cfg.CORE_TEAM)

(***************************************************************************)
(* datetime arithmetic (proleptic Gregorian calendar)                      *)
(***************************************************************************)
days_from_civil(y0, m, d) ==
    LET y == IF m <= 2 THEN y0 - 1 ELSE y0
        era == y \div 400
        yoe == y - era * 400
        mp == IF m > 2 THEN m - 3 ELSE m + 9
        doy == (153 * mp + 2) \div 5 + d - 1
        doe == yoe * 365 + yoe \div 4 - yoe \div 100 + doy
    IN  era * 146097 + doe - 719468

\* [y, m, d] of a day number
civil_from_days(days) ==
    LET z == days + 719468
        era == z \div 146097
        doe == z - era * 146097
        yoe == (doe - doe \div 1460 + doe \div 36524 - doe \div 146096) \div 365
        doy == doe - (365 * yoe + yoe \div 4 - yoe \div 100)
        mp == (5 * doy + 2) \div 153
        d == doy - (153 * mp + 2) \div 5 + 1
        m == IF mp < 10 THEN mp + 3 ELSE mp - 9
        y == yoe + era * 400 + (IF m <= 2 THEN 1 ELSE 0)
    IN  [y |-> y, m |-> m, d |-> d]

\* ts - timedelta(days=n)
minus_days(ts, n) == ts - 24 * n

\* Timestamp.replace(month=m, day=d): the time of day is kept
replace_month_day(ts, m, d) ==
    days_from_civil(civil_from_days(DayOf(ts)).y, m, d) * 24 + HourOf(ts)

\* Series.max() of a non-empty column
RECURSIVE MaxOf(_)
MaxOf(s) == IF Len(s) = 1 THEN s[1] ELSE Max(s[1], MaxOf(Tail(s)))

RECURSIVE MinOf(_)
MinOf(s) == IF Len(s) = 1 THEN s[1] ELSE Min(s[1], MinOf(Tail(s)))

Column(df, col) == [i \in DOMAIN df |-> df[i][col]]

(***************************************************************************)
(* web_dashboard.py: filter_commits_by_period                              *)
(***************************************************************************)
RollingDays ==
    [last_7_days |-> 7, last_30_days |-> 30, last_90_days |-> 90,
     last_6_months |-> 180, last_year |-> 365]

RollingPeriods == DOMAIN RollingDays

KnownPeriods == {"all", "current_month", "current_quarter"} \cup RollingPeriods

\* period_start with 36 days, not 365, for last_year
period_start_short_year(end_date, period) ==
    IF period = "last_year" THEN minus_days(end_date, 36)
    ELSE IF period \in RollingPeriods
    THEN minus_days(end_date, RollingDays[period])
    ELSE IF period = "current_month"
    THEN replace_month_day(end_date, civil_from_days(DayOf(end_date)).m, 1)
    ELSE LET quarter_start_month ==
                 ((civil_from_days(DayOf(end_date)).m - 1) \div 3) * 3 + 1
         IN  replace_month_day(end_date, quarter_start_month, 1)

\* start_date of a period other than 'all', for end_date = the column's max
period_start(end_date, period) ==
    IF period \in RollingPeriods
    THEN minus_days(end_date, RollingDays[period])
    ELSE IF period = "current_month"
    THEN replace_month_day(end_date, civil_from_days(DayOf(end_date)).m, 1)
    ELSE LET quarter_start_month ==
                 ((civil_from_days(DayOf(end_date)).m - 1) \div 3) * 3 + 1
         IN  replace_month_day(end_date, quarter_start_month, 1)

\* filter_commits_by_period with > in place of >=
filter_commits_by_period_strict(commits_df, period) ==
    IF period = "all" \/ period \notin KnownPeriods \/ commits_df = <<>>
    THEN Returned(commits_df)
    ELSE LET start_date == period_start(MaxOf(Column(commits_df, "date")), period)
         IN  Returned(SelectSeq(commits_df, LAMBDA r : r.date > start_date))

\* filter_commits_by_period failing on an empty table, as if the date
\* arithmetic on the column's max were not defined there
filter_commits_by_period_no_empty(commits_df, period) ==
    IF period = "all" THEN Returned(commits_df)
    ELSE IF commits_df = <<>> THEN Raised("TypeError")
    ELSE IF period \notin KnownPeriods THEN Returned(commits_df)
    ELSE LET end_date == MaxOf(Column(commits_df, "date"))
             start_date == period_start(end_date, period)
         IN  Returned(SelectSeq(commits_df, LAMBDA r : r.date >= start_date))

\* On an empty table the column's max is NaT and every comparison with it
\* is False: the result is the empty table.
filter_commits_by_period(commits_df, period) ==
    IF period = "all" THEN Returned(commits_df)
    ELSE IF period \notin KnownPeriods THEN Returned(commits_df)
    ELSE IF commits_df = <<>> THEN Returned(commits_df)
    ELSE LET end_date == MaxOf(Column(commits_df, "date"))
             start_date == period_start(end_date, period)
         IN  Returned(SelectSeq(commits_df, LAMBDA r : r.date >= start_date))

(***************************************************************************)
(* Arithmetic of the aggregates                                            *)
(***************************************************************************)
\* n/d rounded to the nearest integer, ties to the even one (round(1) of
\* numpy and round() of Python on a value that is exactly representable)
RoundHalfEven(n, d) ==
    LET q == (2 * n + d) \div (2 * d)
    IN  IF (2 * n + d) % (2 * d) = 0 /\ q % 2 = 1 THEN q - 1 ELSE q

\* (count / (commits + 1e-9) * 100).round(1), in tenths: 0 for commits = 0;
\* otherwise the quotient is a little below count/commits*100, so a tie
\* rounds down
RoundWithEps(n, d) ==
    IF d = 0 THEN 0
    ELSE LET q == (2 * n + d) \div (2 * d)
         IN  IF (2 * n + d) % (2 * d) = 0 THEN q - 1 ELSE q

\* Series.mean(): the pair sum / count; NaN is the pair with count 0
Mean(values) == [num |-> SumSeq(values), den |-> Len(values)]

NaN == [num |-> 0, den |-> 0]

\* order of str values under sorted() / groupby (code-point order)
AuthorOrder ==
    <<"Developer One", "dependabot[bot]", "dev1@company.com",
      "developer1", "developer2", "visitor">>

\* sorted(unique values of the column)
sorted_unique(df, col) ==
    SelectSeq(AuthorOrder, LAMBDA a : \E i \in DOMAIN df : df[i][col] = a)

\* ascending sequence of the integers lo..hi
RECURSIVE IntRange(_, _)
IntRange(lo, hi) == IF lo > hi THEN <<>> ELSE <<lo>> \o IntRange(lo + 1, hi)

RECURSIVE Flatten(_)
Flatten(ss) == IF ss = <<>> THEN <<>> ELSE Head(ss) \o Flatten(Tail(ss))

(***************************************************************************)
(* web_dashboard.py: _aggregate_productivity_from_commits                  *)
(***************************************************************************)
\* the named aggregations of one group g (a non-empty table)
group_sums(g) ==
    [total_commits |-> Len(g),
     avg_quality_score |-> Mean(Column(g, "quality_score")),
     total_lines_added |-> SumSeq(Column(g, "additions")),
     total_lines_deleted |-> SumSeq(Column(g, "deletions")),
     lines_changed |-> SumSeq(Column(g, "total_changes")),
     issue_refs |-> SumSeq(Column(g, "has_issue_ref")),
     conventional_commits |-> SumSeq(Column(g, "follows_convention")),
     hotfixes |-> SumSeq(Column(g, "is_hotfix")),
     breaking_changes |-> SumSeq(Column(g, "has_breaking_change")),
     merges |-> SumSeq(Column(g, "is_merge")),
     reverts |-> SumSeq(Column(g, "is_revert"))]

\* (count / total_commits * 100).round(1).fillna(0), in tenths
rate_of(count, total) ==
    IF total = 0 THEN 0 ELSE RoundHalfEven(1000 * count, total)

summary_row(developer, g) ==
    LET a == group_sums(g)
    IN  [developer |-> developer] @@ a @@
        [issue_ref_rate |-> rate_of(a.issue_refs, a.total_commits),
         conventional_rate |-> rate_of(a.conventional_commits, a.total_commits),
         hotfix_rate |-> rate_of(a.hotfixes, a.total_commits),
         merge_rate |-> rate_of(a.merges, a.total_commits),
         revert_rate |-> rate_of(a.reverts, a.total_commits),
         breaking_rate |-> rate_of(a.breaking_changes, a.total_commits),
         avg_lines_per_commit |->
             IF a.total_commits = 0 THEN 0
             ELSE RoundHalfEven(10 * a.lines_changed, a.total_commits)]

\* the aggregation grouped by the raw author name instead of the canonical one
aggregate_by_original_author(df) ==
    LET keys == sorted_unique(df, "original_author")
    IN  [k \in DOMAIN keys |->
            summary_row(keys[k],
                        SelectSeq(df, LAMBDA r : r.original_author = keys[k]))]

\* df.groupby('author').agg(...): one row per key, keys in sorted order
_aggregate_productivity_from_commits(df) ==
    IF df = <<>> THEN <<>>
    ELSE LET keys == sorted_unique(df, "author")
         IN  [k \in DOMAIN keys |->
                 summary_row(keys[k],
                             SelectSeq(df, LAMBDA r : r.author = keys[k]))]

\* DataFrame.sort_values('total_commits', ascending=False); rows with equal
\* totals keep their order
RECURSIVE sort_by_total_commits(_)
sort_by_total_commits(rows) ==
    IF rows = <<>> THEN <<>>
    ELSE LET top == MaxOf(Column(rows, "total_commits"))
             first == CHOOSE i \in DOMAIN rows :
                          /\ rows[i].total_commits = top
                          /\ \A j \in 1..(i - 1) : rows[j].total_commits # top
         IN  <<rows[first]>> \o
             sort_by_total_commits(SubSeq(rows, 1, first - 1)
                                   \o SubSeq(rows, first + 1, Len(rows)))

(***************************************************************************)
(* misc/period_stats.py: the time series                                   *)
(***************************************************************************)
\* filter_last_4_weeks with > in place of >=
filter_last_4_weeks_strict(commits_df) ==
    IF commits_df = <<>> THEN <<>>
    ELSE LET end_date == MaxOf(Column(commits_df, "date_day"))
             start_date == end_date - 28
         IN  SelectSeq(commits_df, LAMBDA r : r.date_day > start_date)

\* filter_last_4_weeks: date_day >= max(date_day) - 28 days
filter_last_4_weeks(commits_df) ==
    IF commits_df = <<>> THEN <<>>
    ELSE LET end_date == MaxOf(Column(commits_df, "date_day"))
             start_date == end_date - 28
         IN  SelectSeq(commits_df, LAMBDA r : r.date_day >= start_date)

\* the named aggregations of one (author, bucket) group
bucket_sums(g) ==
    [commits |-> Len(g),
     lines_added |-> SumSeq(Column(g, "additions")),
     lines_deleted |-> SumSeq(Column(g, "deletions")),
     total_changes |-> SumSeq(Column(g, "total_changes")),
     avg_quality |-> Mean(Column(g, "quality_score")),
     issue_refs |-> SumSeq(Column(g, "has_issue_ref")),
     conventional_commits |-> SumSeq(Column(g, "follows_convention")),
     hotfixes |-> SumSeq(Column(g, "is_hotfix")),
     merges |-> SumSeq(Column(g, "is_merge")),
     reverts |-> SumSeq(Column(g, "is_revert")),
     breaking_changes |-> SumSeq(Column(g, "has_breaking_change"))]

\* a row reindex() created: every column NaN; the sum columns then filled
\* with 0, avg_quality left NaN
filled_row ==
    [commits |-> 0, lines_added |-> 0, lines_deleted |-> 0, total_changes |-> 0,
     avg_quality |-> NaN, issue_refs |-> 0, conventional_commits |-> 0,
     hotfixes |-> 0, merges |-> 0, reverts |-> 0, breaking_changes |-> 0]

\* the rate columns computed with eps = 1e-9
with_rates(a) ==
    a @@
    [issue_ref_rate |-> RoundWithEps(1000 * a.issue_refs, a.commits),
     conventional_rate |-> RoundWithEps(1000 * a.conventional_commits, a.commits),
     hotfix_rate |-> RoundWithEps(1000 * a.hotfixes, a.commits),
     merge_rate |-> RoundWithEps(1000 * a.merges, a.commits),
     revert_rate |-> RoundWithEps(1000 * a.reverts, a.commits),
     breaking_rate |-> RoundWithEps(1000 * a.breaking_changes, a.commits),
     avg_lines_per_commit |-> RoundWithEps(10 * a.total_changes, a.commits)]

\* df.groupby(['author', bucket]).agg(...).reset_index(): one row per
\* (author, bucket) that has commits, sorted by author, then bucket; `when`
\* is the bucket of each row of df
bucket_agg(df, when) ==
    IF df = <<>> THEN <<>>
    ELSE LET devs == sorted_unique(df, "author")
             keys == SelectSeq(IntRange(MinOf(when), MaxOf(when)),
                               LAMBDA b : \E i \in DOMAIN when : when[i] = b)
             group(dev, b) ==
                 SelectSeq([i \in DOMAIN df |-> df[i] @@ [bucket |-> when[i]]],
                           LAMBDA r : r.author = dev /\ r.bucket = b)
         IN  Flatten([d \in DOMAIN devs |->
                 Flatten([k \in DOMAIN keys |->
                     IF group(devs[d], keys[k]) = <<>> THEN <<>>
                     ELSE <<[developer |-> devs[d], when |-> keys[k]]
                            @@ bucket_sums(group(devs[d], keys[k]))>>])])

\* reindex that keeps only the (developer, bucket) pairs that have commits
reindex_existing(agg, devs, buckets) == agg

\* the reindex followed by a fillna(0) of every column, avg_quality included
reindex_filled_all_columns(agg, devs, buckets) ==
    Flatten([d \in DOMAIN devs |->
        [k \in DOMAIN buckets |->
            LET hit == SelectSeq(agg, LAMBDA r : r.developer = devs[d]
                                                 /\ r.when = buckets[k])
            IN  IF hit = <<>>
                THEN [[developer |-> devs[d], when |-> buckets[k]] @@ filled_row
                         EXCEPT !.avg_quality = Mean(<<0>>)]
                ELSE hit[1]]])

\* agg.set_index(['developer', when]).reindex(idx).reset_index() followed
\* by the fillna of the sum columns, idx = product(devs, buckets)
reindex_filled(agg, devs, buckets) ==
    Flatten([d \in DOMAIN devs |->
        [k \in DOMAIN buckets |->
            LET hit == SelectSeq(agg, LAMBDA r : r.developer = devs[d]
                                                 /\ r.when = buckets[k])
            IN  IF hit = <<>>
                THEN [developer |-> devs[d], when |-> buckets[k]] @@ filled_row
                ELSE hit[1]]])

\* every n-th integer from lo up to hi
RECURSIVE StepRange(_, _, _)
StepRange(lo, hi, n) ==
    IF lo > hi THEN <<>> ELSE <<lo>> \o StepRange(lo + n, hi, n)

\* the column `when` is called date in the daily series
daily_timeseries_last_7(commits_df) ==
    IF commits_df = <<>> THEN <<>>
    ELSE LET base_dt == Column(commits_df, "date_day")
             end_date == MaxOf(base_dt)
             start_date == end_date - 7
             df == SelectSeq(commits_df, LAMBDA r : r.date_day >= start_date)
             all_days == IntRange(start_date, end_date)
             agg == bucket_agg(df, Column(df, "date_day"))
             devs == sorted_unique(agg, "developer")
             agg_idxed == reindex_filled(agg, devs, all_days)
         IN  [i \in DOMAIN agg_idxed |-> with_rates(agg_idxed[i])]

\* Period('W').start_time: the Monday of the week of the day
week_start(day) == day - WeekdayOf(day)

\* the column `when` is called week_start in the weekly series
weekly_timeseries_last_4(commits_df) ==
    IF commits_df = <<>> THEN <<>>
    ELSE LET base_dt == Column(commits_df, "date_day")
             end_date == MaxOf(base_dt)
             start_date == end_date - 28
             df == SelectSeq(commits_df, LAMBDA r : r.date_day >= start_date)
             all_weeks == StepRange(week_start(start_date), week_start(end_date), 7)
             agg == bucket_agg(df, [i \in DOMAIN df |-> week_start(df[i].date_day)])
             devs == sorted_unique(agg, "developer")
             agg_idxed == reindex_filled(agg, devs, all_weeks)
         IN  [i \in DOMAIN agg_idxed |-> with_rates(agg_idxed[i])]

(***************************************************************************)
(* web_dashboard.py: create_weekly_trends and the daily chart of           *)
(* create_enhanced_charts                                                  *)
(***************************************************************************)
\* count / commits * 100 with fillna(0): an unrounded quotient, kept as a
\* pair; commits is never 0 in a group
percent_of(count, commits) == [num |-> 100 * count, den |-> commits]

\* called without start_date / end_date by main; the week is the Monday of
\* the week of the commit's date
create_weekly_trends(commits_df) ==
    IF commits_df = <<>> THEN <<>>
    ELSE LET week == [i \in DOMAIN commits_df |->
                         week_start(DayOf(commits_df[i].date))]
             agg == bucket_agg(commits_df, week)
         IN  [i \in DOMAIN agg |->
                 [developer |-> agg[i].developer,
                  week |-> agg[i].when,
                  commits |-> agg[i].commits,
                  avg_quality |-> agg[i].avg_quality,
                  lines_added |-> agg[i].lines_added,
                  lines_deleted |-> agg[i].lines_deleted,
                  total_changes |-> agg[i].total_changes,
                  issue_refs |-> agg[i].issue_refs,
                  conventional_commits |-> agg[i].conventional_commits,
                  hotfixes |-> agg[i].hotfixes,
                  breaking_changes |-> agg[i].breaking_changes,
                  merges |-> agg[i].merges,
                  reverts |-> agg[i].reverts,
                  conventional_rate |-> percent_of(agg[i].conventional_commits, agg[i].commits),
                  issue_ref_rate |-> percent_of(agg[i].issue_refs, agg[i].commits),
                  hotfix_rate |-> percent_of(agg[i].hotfixes, agg[i].commits),
                  merge_rate |-> percent_of(agg[i].merges, agg[i].commits),
                  revert_rate |-> percent_of(agg[i].reverts, agg[i].commits),
                  breaking_rate |-> percent_of(agg[i].breaking_changes, agg[i].commits)]]

\* chart 7 "Daily commits by developer": per developer the counts of the
\* days date_min..date_max, 0 where the developer has no commit
daily_by_dev(commits_core) ==
    IF commits_core = <<>> THEN <<>>
    ELSE LET date_only == [i \in DOMAIN commits_core |-> DayOf(commits_core[i].date)]
             all_days == IntRange(MinOf(date_only), MaxOf(date_only))
             devs == sorted_unique(commits_core, "author")
             size(dev, day) ==
                 Cardinality({i \in DOMAIN commits_core :
                                 commits_core[i].author = dev /\ date_only[i] = day})
         IN  Flatten([d \in DOMAIN devs |->
                 [k \in DOMAIN all_days |->
                     [developer |-> devs[d], date |-> all_days[k],
                      commits |-> size(devs[d], all_days[k])]]])

(***************************************************************************)
(* extract.py: analyze_developer_productivity (on the in-memory table,     *)
(* whose flag columns are bool).  Rates are hundredths of a percent.       *)
(***************************************************************************)
\* the authors in the order the loop first meets them (defaultdict order)
RECURSIVE first_seen(_, _)
first_seen(names, seen) ==
    IF names = <<>> THEN <<>>
    ELSE IF Head(names) \in seen THEN first_seen(Tail(names), seen)
    ELSE <<Head(names)>> \o first_seen(Tail(names), seen \cup {Head(names)})

count_where(g, col) == Cardinality({i \in DOMAIN g : g[i][col]})

analyze_developer_productivity(commits_df) ==
    LET authors == first_seen(Column(commits_df, "author"), {})
        row(author) ==
            LET g == SelectSeq(commits_df, LAMBDA r : r.author = author)
                n == Len(g)
                pct(c) == RoundHalfEven(10000 * c, n)
            IN  [developer |-> author,
                 total_commits |-> n,
                 avg_quality_score |-> Mean(Column(g, "quality_score")),
                 total_lines_added |-> SumSeq(Column(g, "additions")),
                 total_lines_deleted |-> SumSeq(Column(g, "deletions")),
                 total_line_changes |-> SumSeq(Column(g, "total_changes")),
                 \* the counters of developer_stats the rates are taken from
                 merge_commits |-> count_where(g, "is_merge"),
                 reverts |-> count_where(g, "is_revert"),
                 hotfixes |-> count_where(g, "is_hotfix"),
                 issue_references |-> count_where(g, "has_issue_ref"),
                 conventional_commits |-> count_where(g, "follows_convention"),
                 breaking_changes |-> count_where(g, "has_breaking_change"),
                 merge_rate |-> pct(count_where(g, "is_merge")),
                 revert_rate |-> pct(count_where(g, "is_revert")),
                 hotfix_rate |-> pct(count_where(g, "is_hotfix")),
                 issue_ref_rate |-> pct(count_where(g, "has_issue_ref")),
                 conventional_rate |-> pct(count_where(g, "follows_convention")),
                 breaking_change_rate |-> pct(count_where(g, "has_breaking_change"))]
    IN  [k \in DOMAIN authors |-> row(authors[k])]

(***************************************************************************)
(* generate_productivity.py: the summary recomputed from the CSV with the  *)
(* csv module; every cell is text.  The record of a developer holds the    *)
(* counters of dev_stats and the values written to the summary file        *)
(* (rates in tenths of a percent, the average in hundredths of a point).   *)
(***************************************************************************)
\* commit[col] == 'TRUE' counted over the commits g of a developer
count_true(g, col) == Cardinality({i \in DOMAIN g : g[i][col] = "TRUE"})

generate_productivity_csv(commits) ==
    LET authors == first_seen(Column(commits, "author"), {})
        row(author) ==
            LET g == SelectSeq(commits, LAMBDA r : r.author = author)
                n == Len(g)
                pct(c) == RoundHalfEven(1000 * c, n)
                changes == SumSeq(Column(g, "total_changes"))
            IN  [developer |-> author,
                 total_commits |-> n,
                 total_additions |-> SumSeq(Column(g, "additions")),
                 total_deletions |-> SumSeq(Column(g, "deletions")),
                 total_changes |-> changes,
                 issue_refs |-> count_true(g, "has_issue_ref"),
                 conventional_commits |-> count_true(g, "follows_convention"),
                 merges |-> count_true(g, "is_merge"),
                 reverts |-> count_true(g, "is_revert"),
                 hotfixes |-> count_true(g, "is_hotfix"),
                 breaking_changes |-> count_true(g, "has_breaking_change"),
                 avg_quality_score |->
                     RoundHalfEven(100 * SumSeq(Column(g, "quality_score")), 2 * n),
                 issue_ref_rate |-> pct(count_true(g, "has_issue_ref")),
                 conventional_rate |-> pct(count_true(g, "follows_convention")),
                 merge_rate |-> pct(count_true(g, "is_merge")),
                 revert_rate |-> pct(count_true(g, "is_revert")),
                 hotfix_rate |-> pct(count_true(g, "is_hotfix")),
                 breaking_change_rate |-> pct(count_true(g, "has_breaking_change")),
                 avg_lines_per_commit |-> RoundHalfEven(10 * changes, n)]
    IN  [k \in DOMAIN authors |-> row(authors[k])]

(***************************************************************************)
(* Specification of the scorer: the run draws a configuration and a        *)
(* message, and calls score_commit_message on it.                          *)
(***************************************************************************)
InitScore ==
    /\ cfg \in ScoreConfigs
    /\ phase = "extract"
    /\ fetched = <<>>
    /\ combined = <<>>
    /\ out = [op |-> "none"]
    /\ message \in Messages
    /\ score = NotCalled
    /\ filter_df = <<>>
    /\ filter_period = "all"
    /\ calls = <<>>

ScoreCommitMessage ==
    /\ score = NotCalled
    /\ score' = score_commit_message(message)
    /\ UNCHANGED <<calls, cfg, phase, fetched, combined, out, message, filter_df, filter_period>>

NextScore == ScoreCommitMessage

SpecScore == InitScore /\ [][NextScore]_vars

(***************************************************************************)
(* Claims about the scorer (checked under SpecScore)                       *)
(***************************************************************************)
Called == score.exc # "not called"

Clamp(v) == Min(20, Max(0, v))

\* the adjustments of the rubric, each as a function of the message alone
ShortPenalty(m) == IF Len(m) < cfg.QUALITY_MIN_LENGTH THEN 0 - 4 ELSE 0

LongBonus(m) == IF Len(m) > cfg.QUALITY_GOOD_LENGTH THEN 2 ELSE 0

VaguePenaltyAnyCase(m) ==
    IF \E w \in cfg.VAGUE_WORDS : contains(lower(m), lower(w)) THEN 0 - 2 ELSE 0

VaguePenaltyVerbatim(m) ==
    IF \E w \in cfg.VAGUE_WORDS : contains(lower(m), w) THEN 0 - 2 ELSE 0

IssueBonus(m) == IF has_issue_ref(m) THEN 2 ELSE 0

ConventionBonus(m) == IF follows_conventional_commits(m) THEN 4 ELSE 0

UpperBonus(m) == IF Len(m) > 0 /\ isupper(m[1]) THEN 1 ELSE 0

\* C5: scoring the empty message does not raise: a score is returned, with
\* the too-short penalty applied (if the minimum length is positive) and no
\* uppercase bonus.
C5_EmptyMessageIsScored ==
    (Called /\ message = <<>>) =>
        score = Returned(Clamp(cfg.QUALITY_BASE_SCORE + ShortPenalty(<<>>)
                               + LongBonus(<<>>)))

\* C6: for every message and every configuration score_commit_message
\* returns a value in [0, 10] (0..20 half points).
C6_ScoreInRange ==
    Called => (score.exc = "none" /\ score.val >= 0 /\ score.val <= 20)

\* C7 as stated: for every message the score is the clamped sum of the base
\* score and six adjustments, each applied independently of the others, the
\* vague-word test being a case-insensitive substring test.  (Stated here
\* for the calls that return, so that a violation is a wrong score and not
\* the exception of C5.)
C7_IndependentRubric ==
    (Called /\ message # <<>>) =>
        score = Returned(Clamp(cfg.QUALITY_BASE_SCORE + ShortPenalty(message)
                               + LongBonus(message)
                               + VaguePenaltyAnyCase(message)
                               + IssueBonus(message)
                               + ConventionBonus(message)
                               + UpperBonus(message)))

\* C7 amended: for every non-empty message the score is the clamped sum of
\* the base score and the adjustments, where the long-message bonus is
\* applied only when the short-message penalty is not, and the vague-word
\* penalty is applied when a configured word occurs verbatim in the
\* lower-cased message; the other adjustments are independent.  (On the
\* empty message the call raises IndexError, the defect of C5.)
C7_Rubric ==
    Called =>
        IF message = <<>>
        THEN score = Raised("IndexError")
        ELSE score = Returned(Clamp(cfg.QUALITY_BASE_SCORE
                        + ShortPenalty(message)
                        + (IF ShortPenalty(message) = 0 THEN LongBonus(message) ELSE 0)
                        + VaguePenaltyVerbatim(message)
                        + IssueBonus(message)
                        + ConventionBonus(message)
                        + UpperBonus(message)))

\* a message that is both shorter than the minimum and longer than the good
\* length has been scored, with an issue reference and a capital first letter
C7_Witness ==
    /\ score.exc = "none"
    /\ Len(message) < cfg.QUALITY_MIN_LENGTH
    /\ Len(message) > cfg.QUALITY_GOOD_LENGTH
    /\ has_issue_ref(message)
    /\ cfg.QUALITY_BASE_SCORE = 10
    /\ score.val = 8

\* the configured vague words leave message m alone
NoVagueWord(m) == ~ \E w \in cfg.VAGUE_WORDS : contains(lower(m), w)

\* C21: example scenario 1.  Under a configuration with base score 5.0, a
\* minimum length above 3 and no vague word occurring in the message,
\* scoring "fix" yields 3.0 (base 5 minus 2 for being too short, no other
\* adjustment), and the message has no issue reference and does not follow
\* the conventional pattern.
C21_ExampleFix ==
    (Called /\ message = FixMessage
            /\ cfg.QUALITY_BASE_SCORE = 10
            /\ cfg.QUALITY_MIN_LENGTH > 3
            /\ NoVagueWord(FixMessage)) =>
        /\ score = Returned(6)
        /\ ~ has_issue_ref(message)
        /\ ~ follows_conventional_commits(message)

\* "fix" has been scored under such a configuration
C21_Witness ==
    /\ score.exc = "none"
    /\ message = FixMessage
    /\ cfg.QUALITY_BASE_SCORE = 10
    /\ cfg.QUALITY_MIN_LENGTH = 10
    /\ cfg.VAGUE_WORDS = {}

\* C22: example scenario 2.  Under a configuration with base score 5.0, a
\* good length below 34, the type feat in the conventional pattern and no
\* vague word occurring in the message, scoring
\* "feat(auth): add OAuth login (#123)" yields 9.0: no short penalty, +1 for
\* the length, +2 for the conventional pattern, +1 for the issue reference,
\* no uppercase bonus.
C22_ExampleFeat ==
    (Called /\ message = FeatMessage
            /\ cfg.QUALITY_BASE_SCORE = 10
            /\ cfg.QUALITY_MIN_LENGTH <= 34
            /\ cfg.QUALITY_GOOD_LENGTH < 34
            /\ <<"f", "e", "a", "t">> \in cfg.CONVENTIONAL_COMMIT_PATTERN
            /\ NoVagueWord(FeatMessage)) =>
        /\ score = Returned(18)
        /\ ShortPenalty(message) = 0
        /\ LongBonus(message) = 2
        /\ ConventionBonus(message) = 4
        /\ IssueBonus(message) = 2
        /\ UpperBonus(message) = 0

\* the message of scenario 2 has been scored under the thresholds 10 / 30
C22_Witness ==
    /\ score.exc = "none"
    /\ message = FeatMessage
    /\ cfg.QUALITY_BASE_SCORE = 10
    /\ cfg.QUALITY_MIN_LENGTH = 10
    /\ cfg.QUALITY_GOOD_LENGTH = 30
    /\ cfg.VAGUE_WORDS = {<<"F">>}

\* the sum the scorer hands to the clamp, for a non-empty message
Unclamped(m) ==
    cfg.QUALITY_BASE_SCORE
    + ShortPenalty(m)
    + (IF ShortPenalty(m) = 0 THEN LongBonus(m) ELSE 0)
    + VaguePenaltyVerbatim(m)
    + IssueBonus(m)
    + ConventionBonus(m)
    + UpperBonus(m)

\* C30: with base score 5.0 and a non-empty message the short-message
\* penalty and the long-message bonus are never both applied, the unclamped
\* score is a multiple of 0.5 in [2.0, 9.5] (a whole number of half points
\* in 4..19), and the clamp to [0, 10] does not change it.
C30_ReachableScores ==
    (Called /\ message # <<>> /\ cfg.QUALITY_BASE_SCORE = 10) =>
        /\ score.exc = "none"
        /\ Unclamped(message) \in 4..19
        /\ score.val = Unclamped(message)
        /\ (Len(message) < cfg.QUALITY_MIN_LENGTH
                /\ Len(message) > cfg.QUALITY_GOOD_LENGTH) =>
               score.val = 10 - 4 + VaguePenaltyVerbatim(message)
                           + IssueBonus(message) + ConventionBonus(message)
                           + UpperBonus(message)

\* the lowest score has been returned under base 5.0: a short message with
\* a vague word in it, which is also longer than the good length
C30_Witness ==
    /\ score.exc = "none"
    /\ message # <<>>
    /\ cfg.QUALITY_BASE_SCORE = 10
    /\ Len(message) < cfg.QUALITY_MIN_LENGTH
    /\ Len(message) > cfg.QUALITY_GOOD_LENGTH
    /\ score.val = 4

(***************************************************************************)
(* Specification of the period filter: the run draws a commit table and a  *)
(* period name and calls filter_commits_by_period on them.                 *)
(***************************************************************************)
RawCommit(sha, name, date, msg, stats) ==
    [sha |-> sha, name |-> name, date |-> date, message |-> msg, stats |-> stats]

Stats(a, d, t) == <<[additions |-> a, deletions |-> d, total |-> t]>>

\* 2024-04-08: seven days after the first day of a month and of a quarter
AnchorDay == days_from_civil(2024, 4, 8)

\* commit instants at 09:00 and 17:00 of the anchor day and of the days 7,
\* 30, 90, 180 and 365 days before it
PeriodStamps ==
    {(AnchorDay - n) * 24 + h : n \in {0, 7, 30, 90, 180, 365}, h \in {9, 17}}

UnknownPeriods == {"last_14_days"}

\* the loaded row of the commit with the given position and instant
PeriodRow(i, ts) ==
    LET c == RawCommit(i, "developer2", ts, <<"F", "#", "1">>, Stats(1, 1, 2))
    IN  load_row(analysis_row(c, normalize_author(c.name)[1],
                              score_commit_message(c.message).val))

InitPeriod ==
    /\ cfg = PipelineConfig
    /\ phase = "csv"
    /\ fetched = <<>>
    /\ combined = <<>>
    /\ out = [op |-> "none"]
    /\ message = <<>>
    /\ score = NotCalled
    /\ \E f \in SeqsUpTo(PeriodStamps, MaxRows) :
           filter_df = [i \in DOMAIN f |-> PeriodRow(i, f[i])]
    /\ filter_period \in KnownPeriods \cup UnknownPeriods
    /\ calls = <<>>

FilterCommitsByPeriod ==
    /\ out.op = "none"
    /\ out' = [op |-> "filter_commits_by_period",
               result |-> filter_commits_by_period(filter_df, filter_period)]
    /\ UNCHANGED <<calls, cfg, phase, fetched, combined, message, score,
                   filter_df, filter_period>>

NextPeriod == FilterCommitsByPeriod

SpecPeriod == InitPeriod /\ [][NextPeriod]_vars

(***************************************************************************)
(* Claims about the period filter (checked under SpecPeriod)               *)
(***************************************************************************)
Filtered == out.op = "filter_commits_by_period"

\* the rows of the input a filter result holds
Kept(result) == {result[j] : j \in DOMAIN result}

\* the result keeps the order of the input and repeats no row
InInputOrder(result) ==
    \A j, k \in DOMAIN result : j < k => result[j].sha < result[k].sha

MaxDate == MaxOf(Column(filter_df, "date"))

\* C3: a period name that is not one of the eight known names makes the
\* period filter fail with a configuration error.
C3_UnknownPeriodFails ==
    (Filtered /\ filter_period \notin
        {"all", "last_7_days", "last_30_days", "last_90_days", "last_6_months",
         "last_year", "current_month", "current_quarter"})
    => out.result.exc = "ConfigurationError"

\* C8: for a rolling period of N days the filter returns exactly the input
\* rows whose date t satisfies M - N days <= t, M being the latest date of
\* the input; the row dated M is in the result.
C8_RollingPeriods ==
    (Filtered /\ filter_period \in
        {"last_7_days", "last_30_days", "last_90_days", "last_6_months", "last_year"}
     /\ filter_df # <<>>)
    => LET N == CASE filter_period = "last_7_days" -> 7
                  [] filter_period = "last_30_days" -> 30
                  [] filter_period = "last_90_days" -> 90
                  [] filter_period = "last_6_months" -> 180
                  [] filter_period = "last_year" -> 365
           result == out.result.val
       IN  /\ out.result.exc = "none"
           /\ \A i \in DOMAIN filter_df :
                  (filter_df[i] \in Kept(result))
                      <=> (MaxDate - filter_df[i].date <= N * 24)
           /\ Kept(result) \subseteq Range(filter_df)
           /\ InInputOrder(result)
           /\ \E j \in DOMAIN result : result[j].date = MaxDate

\* a last_7_days call has kept a row dated exactly seven days before the
\* latest row and dropped an older one
C8_Witness ==
    /\ Filtered
    /\ filter_period = "last_7_days"
    /\ \E j \in DOMAIN out.result.val : out.result.val[j].date = MaxDate - 7 * 24
    /\ Len(out.result.val) < Len(filter_df)

\* the rolling periods and 'all', from the narrowest to the widest
PeriodChain ==
    <<"last_7_days", "last_30_days", "last_90_days", "last_6_months",
      "last_year", "all">>

\* what the filter returns for the run's table and another period
FilterOf(period) == filter_commits_by_period(filter_df, period).val

\* C27: filtering a filter result again by the same period changes nothing;
\* the results of the rolling periods are nested, from last_7_days up to
\* last_year and all, which returns the input itself; the result of
\* current_month lies within the result of current_quarter.
C27_FilterAlgebra ==
    (Filtered /\ filter_period \in KnownPeriods) =>
        LET result == out.result.val
        IN  /\ out.result.exc = "none"
            /\ filter_commits_by_period(result, filter_period) = Returned(result)
            /\ \A j, k \in DOMAIN PeriodChain :
                   (PeriodChain[j] = filter_period /\ j <= k) =>
                       Kept(result) \subseteq Kept(FilterOf(PeriodChain[k]))
            /\ filter_period = "all" => result = filter_df
            /\ filter_period = "current_month" =>
                   Kept(result) \subseteq Kept(FilterOf("current_quarter"))

\* a last_30_days call on three commits has kept two of them, one more than
\* last_7_days keeps and one fewer than last_90_days
C27_Witness ==
    /\ Filtered
    /\ filter_period = "last_30_days"
    /\ Len(filter_df) = 3
    /\ Len(out.result.val) = 2
    /\ Len(FilterOf("last_7_days")) = 1
    /\ Len(FilterOf("last_90_days")) = 3

\* first day of the month (quarter = FALSE) or of the three-month block
\* (quarter = TRUE) containing the day
FirstDayOfBlock(day, quarter) ==
    LET c == civil_from_days(day)
        m == IF quarter
             THEN CASE c.m \in {1, 2, 3} -> 1
                    [] c.m \in {4, 5, 6} -> 4
                    [] c.m \in {7, 8, 9} -> 7
                    [] c.m \in {10, 11, 12} -> 10
             ELSE c.m
    IN  days_from_civil(c.y, m, 1)

\* C9: current_month (current_quarter) returns every input row dated on or
\* after the first day, from the start of that day, of the month (quarter)
\* containing the latest date, and no other row.
C9_CalendarPeriods ==
    (Filtered /\ filter_period \in {"current_month", "current_quarter"}
     /\ filter_df # <<>>)
    => LET first == FirstDayOfBlock(DayOf(MaxDate), filter_period = "current_quarter")
           result == out.result.val
       IN  /\ out.result.exc = "none"
           /\ \A i \in DOMAIN filter_df :
                  (filter_df[i] \in Kept(result))
                      <=> (DayOf(filter_df[i].date) >= first)

(***************************************************************************)
(* Specification of the pipeline: extract.main analyses the commits of one *)
(* repository after the other and writes the CSV; afterwards the period    *)
(* statistics and the dashboard are computed from the CSV.                 *)
(***************************************************************************)
\* message and line counts of the commits a given author makes
MessageOf(n) == IF n = "developer2" THEN <<"f", ":", " ", "w">> ELSE <<"F", "#", "1">>

StatsOf(n, t) ==
    LET a == IF HourOf(t) = 9 THEN 1 ELSE 2
        d == IF n = "developer2" THEN 0 ELSE 3
    IN  Stats(a, d, a + d)

\* what the API can answer for one commit (the sha is given on arrival):
\* two developers at 17:00 of the anchor day and at 09:00 seven days
\* before; an alias of the first at 17:00 of both days; the second eight
\* days before; an excluded bot; an author outside the core team, without
\* stats; a commit with an empty message
RawChoices ==
    {[name |-> c[1], date |-> c[2], message |-> MessageOf(c[1]),
      stats |-> StatsOf(c[1], c[2])] :
        c \in ({"Developer One", "developer2"}
                  \X {AnchorDay * 24 + 17, (AnchorDay - 7) * 24 + 9})
              \cup ({"dev1@company.com"}
                  \X {AnchorDay * 24 + 17, (AnchorDay - 7) * 24 + 17})
              \cup {<<"developer2", (AnchorDay - 8) * 24 + 17>>,
                    <<"dependabot[bot]", AnchorDay * 24 + 17>>}}
    \cup {[name |-> "visitor", date |-> (AnchorDay - 1) * 24 + 9,
           message |-> <<"M", "e", "r", "g", "e">>, stats |-> None],
          [name |-> "developer2", date |-> AnchorDay * 24 + 17,
           message |-> <<>>, stats |-> None]}

Init ==
    /\ cfg = PipelineConfig
    /\ phase = "extract"
    /\ fetched = <<>>
    /\ combined = <<>>
    /\ out = [op |-> "none"]
    /\ message = <<>>
    /\ score = NotCalled
    /\ filter_df = <<>>
    /\ filter_period = "all"
    /\ calls = <<>>

\* one turn of the loop over the repositories in extract.main: get_commits,
\* analyze_commit_messages, the repository column, the append
ProcessRepo ==
    /\ phase = "extract"
    /\ \E picks \in SeqsUpTo(RawChoices, MaxCommits - Len(fetched)) :
        /\ picks # <<>>
        /\ LET commits == [i \in DOMAIN picks |->
                              RawCommit(Len(fetched) + i, picks[i].name, picks[i].date,
                                        picks[i].message, picks[i].stats)]
               commits_df == analyze_commit_messages(commits)
           IN  /\ fetched' = fetched \o commits
               /\ IF commits_df.exc # "none"
                  THEN phase' = "crashed" /\ combined' = combined
                  ELSE /\ phase' = phase
                       /\ combined' = combined \o
                              [i \in DOMAIN commits_df.val |->
                                  commits_df.val[i] @@ [repository |-> "repo"]]
    /\ UNCHANGED <<calls, cfg, out, message, score, filter_df, filter_period>>

\* the end of extract.main: analyze_developer_productivity and the two CSVs
ExtractDone ==
    /\ phase = "extract"
    /\ fetched # <<>>
    /\ phase' = "csv"
    /\ out' = [op |-> "extract", exc |-> "none",
               productivity |-> analyze_developer_productivity(combined)]
    /\ UNCHANGED <<calls, cfg, fetched, combined, message, score, filter_df, filter_period>>

\* period_stats.main from the core-team table on: the two period summaries
\* and the two time series
period_stats_report(commits_core) ==
    LET filtered == filter_commits_by_period(commits_core, "last_7_days")
        last7 == filtered.val
        last4w == filter_last_4_weeks(commits_core)
    IN  IF filtered.exc # "none"
        THEN [op |-> "period_stats", exc |-> filtered.exc]
        ELSE
        [op |-> "period_stats", exc |-> "none",
         commits_core |-> commits_core,
         last7 |-> last7,
         stats7 |-> sort_by_total_commits(
                        _aggregate_productivity_from_commits(last7)),
         last4w |-> last4w,
         stats4w |-> sort_by_total_commits(
                         _aggregate_productivity_from_commits(last4w)),
         daily7 |-> daily_timeseries_last_7(commits_core),
         weekly4 |-> weekly_timeseries_last_4(commits_core)]

\* period_stats.main
PeriodStatsMain ==
    /\ phase = "csv"
    /\ out' = IF combined = <<>>
              THEN [op |-> "period_stats", exc |-> "ValueError"]   \* no date column
              ELSE period_stats_report(core_team_only(load_commits_df(combined)))
    /\ UNCHANGED <<calls, cfg, phase, fetched, combined, message, score, filter_df, filter_period>>

\* the tabs of web_dashboard.main, in the order of the time_periods dict
time_periods ==
    <<"all", "last_30_days", "last_90_days", "last_6_months",
      "current_month", "current_quarter">>

\* web_dashboard.main from the core-team table on: what each tab is
\* computed from
dashboard_report(commits_core) ==
    LET filtered(i) == filter_commits_by_period(commits_core, time_periods[i])
    IN  IF \E i \in DOMAIN time_periods : filtered(i).exc # "none"
        THEN [op |-> "web_dashboard",
              exc |-> filtered(CHOOSE i \in DOMAIN time_periods :
                          /\ filtered(i).exc # "none"
                          /\ \A j \in 1..(i - 1) : filtered(j).exc = "none").exc]
        ELSE
        [op |-> "web_dashboard", exc |-> "none",
         commits_core |-> commits_core,
         tabs |-> [i \in DOMAIN time_periods |->
             LET period_commits == filtered(i).val
             IN  [period |-> time_periods[i],
                  period_commits |-> period_commits,
                  weekly_trends |-> create_weekly_trends(period_commits),
                  period_prod |->
                      _aggregate_productivity_from_commits(period_commits),
                  daily |-> daily_by_dev(period_commits)]]]

\* web_dashboard.main
DashboardMain ==
    /\ phase = "csv"
    /\ out' = IF combined = <<>>
              THEN [op |-> "web_dashboard", exc |-> "ValueError"]  \* no date column
              ELSE dashboard_report(core_team_only(load_commits(combined)))
    /\ UNCHANGED <<calls, cfg, phase, fetched, combined, message, score, filter_df, filter_period>>

\* generate_productivity.py run on the commit-analysis CSV
GenerateProductivity ==
    /\ phase = "csv"
    /\ out' = [op |-> "generate_productivity", exc |-> "none",
               dev_stats |-> generate_productivity_csv(commit_analysis_csv(combined))]
    /\ UNCHANGED <<calls, cfg, phase, fetched, combined, message, score, filter_df, filter_period>>

Next ==
    \/ ProcessRepo
    \/ ExtractDone
    \/ PeriodStatsMain
    \/ DashboardMain
    \/ GenerateProductivity

Spec == Init /\ [][Next]_vars

(***************************************************************************)
(* Claims about the pipeline (checked under Spec)                          *)
(***************************************************************************)
PeriodStatsDone == out.op = "period_stats" /\ out.exc = "none"

DashboardDone == out.op = "web_dashboard" /\ out.exc = "none"

ExtractFinished == out.op = "extract"

RowsOf(rows, dev) == SelectSeq(rows, LAMBDA r : r.developer = dev)

SumCol(rows, col) == SumSeq(Column(rows, col))

Developers(rows) == {rows[i].developer : i \in DOMAIN rows}

Authors(df) == {df[i].author : i \in DOMAIN df}

\* C1: for every developer the daily grid of the last 7 days and the summary
\* of the last_7_days window agree: the grid's commits, lines added, lines
\* deleted and total changes of the developer add up to the summary row's
\* total_commits, total_lines_added, total_lines_deleted and lines_changed
\* (a developer without a summary row has nothing in the grid).
C1_DailyConservation ==
    PeriodStatsDone =>
        \A dev \in Developers(out.daily7) \cup Developers(out.stats7) :
            LET grid == RowsOf(out.daily7, dev)
                summary == RowsOf(out.stats7, dev)
            IN  /\ SumCol(grid, "commits") = SumCol(summary, "total_commits")
                /\ SumCol(grid, "lines_added") = SumCol(summary, "total_lines_added")
                /\ SumCol(grid, "lines_deleted") = SumCol(summary, "total_lines_deleted")
                /\ SumCol(grid, "total_changes") = SumCol(summary, "lines_changed")

\* the fetched commits whose raw author is not excluded
NotExcluded == SelectSeq(fetched, LAMBDA c : c.name \notin cfg.EXCLUDED_AUTHORS)

\* every summary and grid the last query produced, as (rows, count column)
ProducedTables ==
    IF ExtractFinished THEN {<<out.productivity, "total_commits">>}
    ELSE IF PeriodStatsDone
    THEN {<<out.stats7, "total_commits">>, <<out.stats4w, "total_commits">>,
          <<out.daily7, "commits">>, <<out.weekly4, "commits">>}
    ELSE IF DashboardDone
    THEN UNION {{<<out.tabs[i].period_prod, "total_commits">>,
                 <<out.tabs[i].weekly_trends, "commits">>,
                 <<out.tabs[i].daily, "commits">>} : i \in DOMAIN out.tabs}
    ELSE {}

\* C2: a commit whose raw author is in the excluded set is dropped by
\* analyze_commit_messages: no analysed row stems from it, and no summary or
\* grid row counts it (every table counts at most the commits that are not
\* excluded, under the names those commits resolve to).
C2_ExclusionCorrectness ==
    /\ \A i \in DOMAIN combined :
           /\ combined[i].original_author \notin cfg.EXCLUDED_AUTHORS
           /\ \E j \in DOMAIN NotExcluded : NotExcluded[j].sha = combined[i].sha
    /\ \A t \in ProducedTables :
           /\ SumCol(t[1], t[2]) <= Len(NotExcluded)
           /\ \A dev \in Developers(t[1]) :
                  /\ \E j \in DOMAIN NotExcluded :
                         dev = IF NotExcluded[j].name \in DOMAIN cfg.AUTHOR_MAPPING
                               THEN cfg.AUTHOR_MAPPING[NotExcluded[j].name]
                               ELSE NotExcluded[j].name
                  /\ SumCol(RowsOf(t[1], dev), t[2]) <=
                         Cardinality({j \in DOMAIN NotExcluded :
                             dev = IF NotExcluded[j].name \in DOMAIN cfg.AUTHOR_MAPPING
                                   THEN cfg.AUTHOR_MAPPING[NotExcluded[j].name]
                                   ELSE NotExcluded[j].name})

\* extract.main has finished a run in which an excluded author's commit and
\* another commit were fetched, and the productivity table has a row
C2_Witness ==
    /\ ExtractFinished
    /\ \E i \in DOMAIN fetched : fetched[i].name \in cfg.EXCLUDED_AUTHORS
    /\ Len(NotExcluded) >= 1
    /\ Len(out.productivity) >= 1

\* exactly one row of the grid for every pair of devs \X buckets, and no
\* other row; `col` is the bucket column of the grid
CompleteGrid(grid, col, devs, buckets) ==
    /\ \A dev \in devs : \A b \in buckets :
           Cardinality({i \in DOMAIN grid :
                           grid[i].developer = dev /\ grid[i][col] = b}) = 1
    /\ \A i \in DOMAIN grid : grid[i].developer \in devs /\ grid[i][col] \in buckets
    /\ Cardinality({grid[i][col] : i \in DOMAIN grid}) = Cardinality(buckets)

LastDay(df) == MaxOf(Column(df, "date_day"))

Mondays == {d \in (AnchorDay - 60)..(AnchorDay + 7) : WeekdayOf(d) = 0}

\* C4: the daily grid (weekly grid) of a non-empty commit table has exactly
\* one row per developer with a commit in the window and per calendar day
\* (Monday-started week) from the window start to the latest commit, both
\* ends included; the window is the 7 (28) days before the latest commit day
\* for the period statistics, and the span of the tab's commits for the
\* dashboard's daily chart.
C4_GridCompleteness ==
    /\ (PeriodStatsDone /\ out.commits_core # <<>>) =>
           LET df == out.commits_core
               last == LastDay(df)
               in7 == SelectSeq(df, LAMBDA r : last - r.date_day <= 7)
               in28 == SelectSeq(df, LAMBDA r : last - r.date_day <= 28)
           IN  /\ CompleteGrid(out.daily7, "when", Authors(in7), (last - 7)..last)
               /\ CompleteGrid(out.weekly4, "when", Authors(in28),
                      {m \in Mondays : /\ m + 6 >= last - 28
                                       /\ m <= last})
    /\ DashboardDone =>
           \A i \in DOMAIN out.tabs :
               LET df == out.tabs[i].period_commits
                   days == {DayOf(df[k].date) : k \in DOMAIN df}
               IN  df # <<>> =>
                       CompleteGrid(out.tabs[i].daily, "date", Authors(df),
                           {d \in (AnchorDay - 60)..(AnchorDay + 7) :
                               /\ \E lo \in days : lo <= d
                               /\ \E hi \in days : d <= hi})

\* the period statistics hold a daily grid of two developers in which some
\* developer has a day without commits and a day with commits
C4_Witness ==
    /\ PeriodStatsDone
    /\ Cardinality(Developers(out.daily7)) >= 2
    /\ \E i, j \in DOMAIN out.daily7 :
           /\ out.daily7[i].developer = out.daily7[j].developer
           /\ out.daily7[i].commits = 0
           /\ out.daily7[j].commits > 0
    /\ Len(out.weekly4) >= 10

\* the summary has one row per author of the table, holding the number of
\* the author's rows
OneRowPerAuthor(summary, df) ==
    /\ Developers(summary) = Authors(df)
    /\ \A a \in Authors(df) :
           /\ Len(RowsOf(summary, a)) = 1
           /\ RowsOf(summary, a)[1].total_commits =
                  Cardinality({k \in DOMAIN df : df[k].author = a})

\* C10: every per-developer summary of a commit table has exactly one row
\* for each canonical author with a commit in the table and none for anyone
\* else, and the row's total_commits is the number of that author's commits;
\* two commits under two aliases of one developer give one row with 2.
C10_OneRowPerCanonicalAuthor ==
    /\ ExtractFinished => OneRowPerAuthor(out.productivity, combined)
    /\ PeriodStatsDone =>
           /\ OneRowPerAuthor(out.stats7, out.last7)
           /\ OneRowPerAuthor(out.stats4w, out.last4w)
    /\ DashboardDone =>
           \A i \in DOMAIN out.tabs :
               OneRowPerAuthor(out.tabs[i].period_prod, out.tabs[i].period_commits)

\* the dashboard's all-time tab of two commits made under two aliases of
\* developer1 has the single row developer1 with total_commits = 2
C10_Witness ==
    /\ DashboardDone
    /\ Len(fetched) = 2
    /\ {fetched[1].name, fetched[2].name} = {"Developer One", "dev1@company.com"}
    /\ Len(out.tabs[1].period_prod) = 1
    /\ out.tabs[1].period_prod[1].developer = "developer1"
    /\ out.tabs[1].period_prod[1].total_commits = 2

GenerateDone == out.op = "generate_productivity"

\* the flag columns, each with the counter generate_productivity keeps
FlagCounters ==
    [has_issue_ref |-> "issue_refs", follows_convention |-> "conventional_commits",
     is_merge |-> "merges", is_revert |-> "reverts", is_hotfix |-> "hotfixes",
     has_breaking_change |-> "breaking_changes"]

\* the row extract.py computed for a commit
Computed(sha) == combined[CHOOSE i \in DOMAIN combined : combined[i].sha = sha]

\* C26: a flag extract.py computed as true for a commit and wrote to the
\* commit-analysis file is read back as 1 by the dashboard and period-stats
\* loaders and is counted by generate_productivity, a false flag is read
\* back as 0: each flag count equals the number of commits in scope for
\* which the scorer set the flag.
C26_FlagRoundTrip ==
    /\ (PeriodStatsDone \/ DashboardDone) =>
           \A i \in DOMAIN out.commits_core : \A col \in DOMAIN FlagCounters :
               out.commits_core[i][col] =
                   IF Computed(out.commits_core[i].sha)[col] THEN 1 ELSE 0
    /\ GenerateDone =>
           \A k \in DOMAIN out.dev_stats : \A col \in DOMAIN FlagCounters :
               out.dev_stats[k][FlagCounters[col]] =
                   Cardinality({i \in DOMAIN combined :
                                   /\ combined[i].author = out.dev_stats[k].developer
                                   /\ combined[i][col]})

\* what a summary says of its developers: per developer the commits, the
\* three line sums and the six flag counts, read through the summary's
\* own column names
Tally(summary, names) ==
    {[developer |-> summary[k].developer,
      total_commits |-> summary[k].total_commits,
      sums |-> <<summary[k][names[1]], summary[k][names[2]], summary[k][names[3]]>>,
      flags |-> [j \in 4..9 |-> summary[k][names[j]]]] : k \in DOMAIN summary}

ExtractNames ==
    <<"total_lines_added", "total_lines_deleted", "total_line_changes",
      "issue_references", "conventional_commits", "merge_commits", "reverts",
      "hotfixes", "breaking_changes">>

AggregateNames ==
    <<"total_lines_added", "total_lines_deleted", "lines_changed",
      "issue_refs", "conventional_commits", "merges", "reverts",
      "hotfixes", "breaking_changes">>

GenerateNames ==
    <<"total_additions", "total_deletions", "total_changes",
      "issue_refs", "conventional_commits", "merges", "reverts",
      "hotfixes", "breaking_changes">>

\* C29: for the same commit records analyze_developer_productivity (on the
\* table in memory), _aggregate_productivity_from_commits (on the table
\* loaded from the file) and generate_productivity_csv (on the rows of the
\* file) give the same developers and, per developer, the same number of
\* commits, the same sums of additions, deletions and total changes and
\* the same counts of the six flags.
C29_AggregatorAgreement ==
    GenerateDone =>
        LET in_memory == Tally(analyze_developer_productivity(combined), ExtractNames)
            loaded == Tally(_aggregate_productivity_from_commits(
                                load_commits(combined)), AggregateNames)
            from_file == Tally(out.dev_stats, GenerateNames)
        IN  in_memory = loaded /\ loaded = from_file

\* the part of C29 that does not depend on the flags
C29_AgreementButFlags ==
    GenerateDone =>
        LET strip(t) == {[developer |-> r.developer, total_commits |-> r.total_commits,
                          sums |-> r.sums] : r \in t}
            in_memory == Tally(analyze_developer_productivity(combined), ExtractNames)
            loaded == Tally(_aggregate_productivity_from_commits(
                                load_commits(combined)), AggregateNames)
            from_file == Tally(out.dev_stats, GenerateNames)
        IN  strip(in_memory) = strip(loaded) /\ strip(loaded) = strip(from_file)

(***************************************************************************)
(* Specification of the commit analysis: the run draws a configuration and *)
(* the answer of the API for one repository, and calls                     *)
(* analyze_commit_messages on it.  The answer is one commit that varies,   *)
(* alone or next to commits of developer2 that are in order.               *)
(***************************************************************************)
\* configurations of the identity resolution: every excluded set over a bot
\* and an alias, every alias mapping of three raw names to a developer or
\* to the bot's name
IdentityConfigs ==
    {[PipelineConfig EXCEPT !.EXCLUDED_AUTHORS = e, !.AUTHOR_MAPPING = m] :
        e \in SUBSET {"dependabot[bot]", "Developer One"},
        m \in UNION {[D -> {"developer1", "dependabot[bot]"}] :
                        D \in SUBSET {"Developer One", "dev1@company.com",
                                      "dependabot[bot]"}}}

RawAuthors == {"Developer One", "dev1@company.com", "dependabot[bot]", "visitor"}

BreakingToken ==
    <<"B", "R", "E", "A", "K", "I", "N", "G", " ", "C", "H", "A", "N", "G", "E">>

\* every message of up to MaxLen characters over ! : f and the blank, and
\* messages around the token BREAKING CHANGE
BreakingMessages ==
    SeqsUpTo({"!", ":", "f", " "}, MaxLen)
    \cup {BreakingToken,
          <<"f", ":", " ">> \o BreakingToken,
          lower(BreakingToken),
          SubSeq(BreakingToken, 1, 8) \o SubSeq(BreakingToken, 10, 15),
          <<"f", "(", "f", ")", "!", ":", " ", "f">>,
          <<"f", "(", "!", ")", ":", " ", "f">>}

\* the stats of a commit: absent, or additions, deletions and a total that
\* may differ from their sum
StatsChoices ==
    {None} \cup {Stats(a, d, t) : a \in 0..1, d \in 0..1, t \in 0..3}

GoodCommit ==
    RawCommit(0, "developer2", AnchorDay * 24 + 17, <<"F", "#", "1">>, Stats(1, 1, 2))

\* the commit without one of its keys
Without(c, key) == [f \in (DOMAIN c) \ {key} |-> c[f]]

NameVariants == {[GoodCommit EXCEPT !.name = n] : n \in RawAuthors}

RecordVariants ==
    {[GoodCommit EXCEPT !.message = m] : m \in BreakingMessages}
    \cup {[GoodCommit EXCEPT !.stats = st] : st \in StatsChoices}
    \cup {Without(GoodCommit, key) : key \in RequiredFields}

\* the answers built around one variant; the sha is the position
Batches(variants) ==
    {[i \in DOMAIN b |-> [b[i] EXCEPT !.sha = i]] :
        b \in {pre \o <<v>> \o post :
                  pre \in {<<>>, <<GoodCommit>>},
                  v \in variants,
                  post \in {<<>>, <<GoodCommit>>}}}

InitAnalyze ==
    /\ \/ cfg \in IdentityConfigs /\ fetched \in Batches(NameVariants)
       \/ cfg = PipelineConfig /\ fetched \in Batches(RecordVariants)
    /\ phase = "extract"
    /\ combined = <<>>
    /\ out = [op |-> "none"]
    /\ message = <<>>
    /\ score = NotCalled
    /\ filter_df = <<>>
    /\ filter_period = "all"
    /\ calls = <<>>

AnalyzeCommitMessages ==
    /\ out.op = "none"
    /\ out' = [op |-> "analyze_commit_messages",
               result |-> analyze_commit_messages(fetched)]
    /\ UNCHANGED <<calls, cfg, phase, fetched, combined, message, score,
                   filter_df, filter_period>>

NextAnalyze == AnalyzeCommitMessages

SpecAnalyze == InitAnalyze /\ [][NextAnalyze]_vars

(***************************************************************************)
(* Claims about the commit analysis (checked under SpecAnalyze)            *)
(***************************************************************************)
Analysed == out.op = "analyze_commit_messages"

AnalysedRows == out.result.val

\* the analysed rows that stem from the commit
RowsFrom(c) == SelectSeq(AnalysedRows, LAMBDA r : r.sha = c.sha)

\* C11: for every raw author string normalize_author returns null if the
\* string is in the excluded set, whatever the alias mapping holds for it;
\* otherwise the alias mapping's value for the string if there is one (even
\* if that value is an excluded name), otherwise the string itself.  Seen
\* through analyze_commit_messages: a commit has no analysed row in the
\* first case and one row with that author in the others.
C11_IdentityResolution ==
    (Analysed /\ out.result.exc = "none") =>
        \A i \in DOMAIN fetched :
            LET c == fetched[i]
            IN  IF c.name \in cfg.EXCLUDED_AUTHORS
                THEN RowsFrom(c) = <<>>
                ELSE /\ Len(RowsFrom(c)) = 1
                     /\ RowsFrom(c)[1].original_author = c.name
                     /\ RowsFrom(c)[1].author =
                            IF c.name \in DOMAIN cfg.AUTHOR_MAPPING
                            THEN cfg.AUTHOR_MAPPING[c.name]
                            ELSE c.name

\* an answer has been analysed that holds a raw name which is excluded and
\* has an alias entry, under a configuration that also maps another raw
\* name to an excluded name; the first commit is dropped
C11_Witness ==
    /\ Analysed
    /\ out.result.exc = "none"
    /\ "Developer One" \in cfg.EXCLUDED_AUTHORS
    /\ "Developer One" \in DOMAIN cfg.AUTHOR_MAPPING
    /\ "dev1@company.com" \in DOMAIN cfg.AUTHOR_MAPPING
    /\ cfg.AUTHOR_MAPPING["dev1@company.com"] \in cfg.EXCLUDED_AUTHORS
    /\ Len(fetched) = 2
    /\ fetched[1].name = "Developer One"
    /\ Len(AnalysedRows) = 1
    /\ AnalysedRows[1].author = "developer2"

\* C28: a resolved name is never an excluded name: for every raw author
\* and every configuration normalize_author returns null or a name outside
\* the excluded set, also when the alias mapping sends a raw name that is
\* not excluded to a canonical name that is.  Seen through
\* analyze_commit_messages: no analysed row carries an excluded author.
C28_ResolvedNamesNotExcluded ==
    (Analysed /\ out.result.exc = "none") =>
        \A i \in DOMAIN AnalysedRows :
            AnalysedRows[i].author \notin cfg.EXCLUDED_AUTHORS

\* a record the data-quality policy calls malformed: a required key is
\* missing, or the stats carry a total that is not additions + deletions
Malformed(c) ==
    \/ ~(RequiredFields \subseteq DOMAIN c)
    \/ /\ c.stats # None
       /\ c.stats[1].total # c.stats[1].additions + c.stats[1].deletions

\* C17: when a raw commit lacks a required field (message, author or
\* timestamp) or has total_changes # additions + deletions, the analysis
\* does not abort: that record alone is left out, every other record that
\* is not excluded is analysed, and the number of rejected records is
\* reported together with the rows.
C17_MalformedRecordsRejected ==
    (Analysed /\ \E i \in DOMAIN fetched : Malformed(fetched[i])) =>
        /\ out.result.exc = "none"
        /\ \A i \in DOMAIN fetched :
               IF Malformed(fetched[i])
               THEN RowsFrom(fetched[i]) = <<>>
               ELSE Len(RowsFrom(fetched[i])) =
                        IF fetched[i].name \in cfg.EXCLUDED_AUTHORS THEN 0 ELSE 1
        /\ "rejected" \in DOMAIN out.result
        /\ out.result.rejected =
               Cardinality({i \in DOMAIN fetched : Malformed(fetched[i])})

\* C18: every analysed row, whatever stats its raw commit carried (none, or
\* a total that differs from additions + deletions), has
\* total_changes = additions + deletions with all three >= 0.
C18_SizeInvariant ==
    (Analysed /\ out.result.exc = "none") =>
        \A k \in DOMAIN AnalysedRows :
            /\ AnalysedRows[k].additions >= 0
            /\ AnalysedRows[k].deletions >= 0
            /\ AnalysedRows[k].total_changes >= 0
            /\ AnalysedRows[k].total_changes =
                   AnalysedRows[k].additions + AnalysedRows[k].deletions

\* the message has a ':' and the character right before its first ':' is '!'
BangBeforeFirstColon(m) ==
    \E i \in 2..Len(m) :
        /\ m[i] = ":"
        /\ \A j \in 1..(i - 1) : m[j] # ":"
        /\ m[i - 1] = "!"

\* C20: the has_breaking_change flag of an analysed commit is true exactly
\* when its message contains the token BREAKING CHANGE or has a '!' right
\* before its first ':'; a '!' elsewhere before the first ':' does not set
\* the flag.  (Whether the text before the '!' is a conventional prefix is
\* not asked for here: the statement is the weakest reading of the claim.)
C20_BreakingChangeFlag ==
    (Analysed /\ out.result.exc = "none") =>
        \A i \in DOMAIN fetched : \A k \in DOMAIN RowsFrom(fetched[i]) :
            RowsFrom(fetched[i])[k].has_breaking_change
                <=> \/ contains(fetched[i].message, BreakingToken)
                    \/ BangBeforeFirstColon(fetched[i].message)

(***************************************************************************)
(* Specification of the reports: the run draws a configuration and the     *)
(* commit table the report scripts hold after loading the CSV, and         *)
(* continues period_stats.main or web_dashboard.main from there (the       *)
(* core-team filter, then the summaries and the time series); or it calls  *)
(* the period filter on the table directly.                                *)
(*                                                                         *)
(* The flag columns of the table hold 0 / 1: what the loaders make of a    *)
(* text column whose cells read FALSE / TRUE.                              *)
(***************************************************************************)
MaxBucket == 16      \* commits of one developer on one day

\* the configurations of the core-team roster
RosterConfigs ==
    {[PipelineConfig EXCEPT !.CORE_TEAM = team] :
        team \in {{}, {"developer1"}, {"developer1", "developer2"}}}

\* the loaded row of a commit; `hotfix` is the text of its is_hotfix cell
GridRow(sha, author, ts, hotfix) ==
    LET c == RawCommit(sha, author, ts, <<"F", "#", "1">>, StatsOf(author, ts))
        r == load_row(analysis_row(c, author, score_commit_message(c.message).val))
    IN  [r EXCEPT !.is_hotfix = map_true_false([t |-> "str", s |-> hotfix])]
        @@ [date_day |-> DayOf(ts)]

\* author and instant of a commit: two developers, on the anchor day (a
\* Monday) at 17:00, two days before at 09:00, 7 and 28 days before at
\* 09:00, 29 days before (a Sunday) at 17:00
GridChoices ==
    {"developer1", "developer2"}
    \X {AnchorDay * 24 + 17, (AnchorDay - 2) * 24 + 9, (AnchorDay - 7) * 24 + 9,
        (AnchorDay - 28) * 24 + 9, (AnchorDay - 29) * 24 + 17}

\* tables of up to MaxRows commits; the commits made at 09:00 are hotfixes
GridTables ==
    {[i \in DOMAIN t |->
        GridRow(i, t[i][1], t[i][2],
                IF HourOf(t[i][2]) = 9 THEN "TRUE" ELSE "FALSE")] :
        t \in SeqsUpTo(GridChoices, MaxRows)}

\* tables of n commits of one developer on one day, the first k of them
\* hotfixes
BulkTables ==
    UNION {{[i \in 1..n |->
                GridRow(i, "developer1", AnchorDay * 24 + 17,
                        IF i <= k THEN "TRUE" ELSE "FALSE")] : k \in 0..n} :
           n \in 1..MaxBucket}

\* tables of commits of the anchor day by two developers and an outsider
RosterTables ==
    {[i \in DOMAIN t |-> GridRow(i, t[i], AnchorDay * 24 + 17, "FALSE")] :
        t \in SeqsUpTo({"developer1", "developer2", "visitor"}, MaxRows)}

InitReport ==
    /\ \/ /\ cfg = PipelineConfig
          /\ filter_df \in GridTables \cup BulkTables
       \/ /\ cfg \in RosterConfigs
          /\ filter_df \in RosterTables
    /\ filter_period \in IF Len(filter_df) <= 1 THEN KnownPeriods ELSE {"last_year"}
    /\ calls = <<>>
    /\ phase = "loaded"
    /\ fetched = <<>>
    /\ combined = <<>>
    /\ out = [op |-> "none"]
    /\ message = <<>>
    /\ score = NotCalled

\* period_stats.main after load_commits_df
PeriodStatsReport ==
    /\ phase = "loaded"
    /\ out.op = "none"
    /\ out' = period_stats_report(core_team_only(filter_df))
    /\ UNCHANGED <<calls, cfg, phase, fetched, combined, message, score,
                   filter_df, filter_period>>

\* web_dashboard.main after the CSV is loaded
DashboardReport ==
    /\ phase = "loaded"
    /\ out.op = "none"
    /\ out' = dashboard_report(core_team_only(filter_df))
    /\ UNCHANGED <<calls, cfg, phase, fetched, combined, message, score,
                   filter_df, filter_period>>

NextReport == PeriodStatsReport \/ DashboardReport \/ FilterCommitsByPeriod

SpecReport == InitReport /\ [][NextReport]_vars

(***************************************************************************)
(* Claims about the reports (checked under SpecReport)                     *)
(***************************************************************************)
\* the table the report worked on
CoreTable == out.commits_core

SumColumns ==
    {"commits", "lines_added", "lines_deleted", "total_changes", "issue_refs",
     "conventional_commits", "hotfixes", "merges", "reverts", "breaking_changes"}

RateColumns ==
    {"issue_ref_rate", "conventional_rate", "hotfix_rate", "merge_rate",
     "revert_rate", "breaking_rate"}

\* the row is a zero-filled one: counts and sums 0, rates 0, no average
ZeroFilled(r) ==
    /\ \A col \in SumColumns : r[col] = 0
    /\ \A col \in RateColumns : r[col] = 0
    /\ r.avg_quality = NaN

\* number of commits of the developer in the table whose day (week) is the
\* bucket
CommitsOn(df, dev, bucket, weekly) ==
    Cardinality({i \in DOMAIN df :
        /\ df[i].author = dev
        /\ bucket = IF weekly THEN df[i].date_day - WeekdayOf(df[i].date_day)
                    ELSE df[i].date_day})

\* C12: in the daily and the weekly grid, a (developer, bucket) row without
\* commits in the table has commits = 0, every count and sum column 0, every
\* rate column 0 (not NaN) and avg_quality undefined (NaN, not 0); a row
\* with commits has an avg_quality.
C12_ZeroFill ==
    PeriodStatsDone =>
        /\ \A i \in DOMAIN out.daily7 :
               LET r == out.daily7[i]
               IN  IF CommitsOn(CoreTable, r.developer, r.when, FALSE) = 0
                   THEN ZeroFilled(r)
                   ELSE r.commits > 0 /\ r.avg_quality # NaN
        /\ \A i \in DOMAIN out.weekly4 :
               LET r == out.weekly4[i]
               IN  IF CommitsOn(CoreTable, r.developer, r.when, TRUE) = 0
                   THEN ZeroFilled(r)
                   ELSE r.avg_quality # NaN

\* one developer has commits two days before the latest day and on the
\* latest day only; the daily grid has a zero-filled row for the day between
C12_Witness ==
    /\ PeriodStatsDone
    /\ Authors(CoreTable) = {"developer1"}
    /\ {CoreTable[i].date_day : i \in DOMAIN CoreTable} = {AnchorDay - 2, AnchorDay}
    /\ \E i \in DOMAIN out.daily7 :
           /\ out.daily7[i].when = AnchorDay - 1
           /\ out.daily7[i].commits = 0
           /\ out.daily7[i].hotfix_rate = 0
           /\ out.daily7[i].avg_quality = NaN
    /\ \E i \in DOMAIN out.daily7 :
           /\ out.daily7[i].when = AnchorDay - 2
           /\ out.daily7[i].hotfix_rate = 1000

\* the calendar days on which the table has commits
DaysOf(df) == {df[i].date_day : i \in DOMAIN df}

\* C13: for a table of commits by one developer, all on one calendar day,
\* the daily grid has exactly one row.
C13_SinglePointGrid ==
    (PeriodStatsDone /\ Cardinality(Authors(CoreTable)) = 1
                     /\ Cardinality(DaysOf(CoreTable)) = 1)
    => Len(out.daily7) = 1

\* r tenths of a percent is 100 * count / commits rounded to one decimal:
\* the nearest tenth, a tie going to the even tenth or upwards
RoundedRate(r, count, commits) ==
    LET twice == 2 * (r * commits - 1000 * count)
    IN  \/ twice < commits /\ 0 - twice < commits
        \/ twice = commits
        \/ 0 - twice = commits /\ r % 2 = 0

\* the rate column and the count column of each of the six rates, with the
\* name of the count column in a summary row
RateFields ==
    {<<"issue_ref_rate", "issue_refs">>,
     <<"conventional_rate", "conventional_commits">>,
     <<"hotfix_rate", "hotfixes">>,
     <<"merge_rate", "merges">>,
     <<"revert_rate", "reverts">>,
     <<"breaking_rate", "breaking_changes">>}

\* the rates of the row are right for its counts; `total` is the column
\* that holds the number of commits
RatesRight(r, total) ==
    \A f \in RateFields :
        /\ r[f[2]] >= 0
        /\ r[f[2]] <= r[total]
        /\ r[f[1]] >= 0
        /\ r[f[1]] <= 1000
        /\ IF r[total] = 0 THEN r[f[1]] = 0
           ELSE RoundedRate(r[f[1]], r[f[2]], r[total])

\* C14: in every summary row and every row of the daily and weekly grid
\* each of the six rates is 100 * count / commits rounded to one decimal
\* when commits > 0 and 0 when commits = 0; each count is <= commits and
\* each rate lies in [0, 100].
C14_RateFields ==
    /\ PeriodStatsDone =>
           /\ \A i \in DOMAIN out.stats7 : RatesRight(out.stats7[i], "total_commits")
           /\ \A i \in DOMAIN out.stats4w : RatesRight(out.stats4w[i], "total_commits")
           /\ \A i \in DOMAIN out.daily7 : RatesRight(out.daily7[i], "commits")
           /\ \A i \in DOMAIN out.weekly4 : RatesRight(out.weekly4[i], "commits")
    /\ DashboardDone =>
           \A t \in DOMAIN out.tabs : \A i \in DOMAIN out.tabs[t].period_prod :
               RatesRight(out.tabs[t].period_prod[i], "total_commits")

\* the Monday of the week of the day (the anchor day is a Monday)
MondayOf(day) == CHOOSE m \in (day - 6)..day : (m - AnchorDay) % 7 = 0

\* total_commits of the developer in the summary, 0 without a row
TotalOf(summary, dev) == SumCol(RowsOf(summary, dev), "total_commits")

\* the weekly rows count the commits of df week by week: every row holds the
\* number of the developer's commits whose day lies in the week starting on
\* the row's Monday, and every commit has its row; `col` is the bucket
\* column and day(r) the calendar day of a commit
WeekByWeek(grid, col, df, day(_)) ==
    /\ \A i \in DOMAIN grid :
           grid[i].commits =
               Cardinality({k \in DOMAIN df :
                   /\ df[k].author = grid[i].developer
                   /\ MondayOf(day(df[k])) = grid[i][col]})
    /\ \A k \in DOMAIN df :
           Cardinality({i \in DOMAIN grid :
               /\ grid[i].developer = df[k].author
               /\ grid[i][col] = MondayOf(day(df[k]))}) = 1

DateDay(r) == r.date_day

DayOfDate(r) == DayOf(r.date)

\* C15: for every developer the commits of the weekly buckets add up to the
\* developer's total_commits in the summary over the same window, every
\* commit of the window being counted in the bucket of the Monday-started
\* week of its date and in no other: for weekly_timeseries_last_4 against
\* the summary of filter_last_4_weeks (the commits dated on or after the
\* latest day minus 28 days), and for create_weekly_trends against the
\* summary of the same period-filtered commits.
C15_WeeklyConservation ==
    /\ PeriodStatsDone =>
           /\ \A k \in DOMAIN CoreTable :
                  (\E j \in DOMAIN out.last4w : out.last4w[j] = CoreTable[k])
                      <=> (\A j \in DOMAIN CoreTable :
                              CoreTable[j].date_day - CoreTable[k].date_day <= 28)
           /\ \A dev \in Developers(out.weekly4) \cup Developers(out.stats4w) :
                  SumCol(RowsOf(out.weekly4, dev), "commits") = TotalOf(out.stats4w, dev)
           /\ WeekByWeek(out.weekly4, "when", out.last4w, DateDay)
    /\ DashboardDone =>
           \A t \in DOMAIN out.tabs :
               LET tab == out.tabs[t]
               IN  /\ \A dev \in Developers(tab.weekly_trends)
                                     \cup Developers(tab.period_prod) :
                          SumCol(RowsOf(tab.weekly_trends, dev), "commits")
                              = TotalOf(tab.period_prod, dev)
                   /\ WeekByWeek(tab.weekly_trends, "week", tab.period_commits, DayOfDate)

\* period_stats has run on a table of one developer with a commit on the
\* latest day, one 28 days before it (a Monday) and one 29 days before it
\* (the Sunday of the week before): the window holds two commits, in two
\* different weeks of a grid of five
C15_Witness ==
    /\ PeriodStatsDone
    /\ Len(CoreTable) = 3
    /\ Authors(CoreTable) = {"developer1"}
    /\ DaysOf(CoreTable) = {AnchorDay, AnchorDay - 28, AnchorDay - 29}
    /\ Len(out.last4w) = 2
    /\ Len(out.weekly4) = 5
    /\ TotalOf(out.stats4w, "developer1") = 2
    /\ \E i \in DOMAIN out.weekly4 :
           out.weekly4[i].when = AnchorDay - 28 /\ out.weekly4[i].commits = 1

\* the loaded commits the roster lets through, as the claim states it
InScope ==
    IF cfg.CORE_TEAM = {} THEN filter_df
    ELSE SelectSeq(filter_df, LAMBDA r : r.author \in cfg.CORE_TEAM)

\* C16: with a non-empty core-team roster exactly the commits whose author
\* is in the roster reach the aggregation; with an empty roster every
\* commit does.  (The dashboard's all-time tab counts the commits that
\* reached it.)
C16_RosterScoping ==
    /\ (PeriodStatsDone \/ DashboardDone) => CoreTable = InScope
    /\ DashboardDone =>
           SumCol(out.tabs[1].period_prod, "total_commits") = Len(InScope)

\* the tables of a report, each with zero rows
ReportEmpty ==
    IF out.op = "period_stats"
    THEN /\ out.last7 = <<>> /\ out.stats7 = <<>>
         /\ out.last4w = <<>> /\ out.stats4w = <<>>
         /\ out.daily7 = <<>> /\ out.weekly4 = <<>>
    ELSE \A t \in DOMAIN out.tabs :
             /\ out.tabs[t].period_commits = <<>>
             /\ out.tabs[t].period_prod = <<>>
             /\ out.tabs[t].weekly_trends = <<>>
             /\ out.tabs[t].daily = <<>>

C25_SevenDayBuckets ==
    (PeriodStatsDone /\ CoreTable # <<>>) =>
        LET last == MaxOf(Column(CoreTable, "date_day"))
        IN  \A dev \in {out.daily7[i].developer : i \in DOMAIN out.daily7} :
                LET rows == {i \in DOMAIN out.daily7 : out.daily7[i].developer = dev}
                IN  /\ Cardinality(rows) = 7
                    /\ {out.daily7[i].when : i \in rows} = (last - 6)..last

(***************************************************************************)
(* Specification of repeated queries: one loaded commit table (the         *)
(* caller's commits_core) is queried a few times in a row, by the body of  *)
(* web_dashboard.main's loop over the periods and by period_stats.main's   *)
(* reports.  filter_df is the caller's table as the calls leave it; calls  *)
(* records, for each query, the table it was handed, what it returned and  *)
(* the table it left.                                                      *)
(***************************************************************************)
MaxCalls == 3        \* queries made in a row against one table

\* filter_commits_by_period hands back its argument itself (return
\* commits_df) for 'all' and for an unknown name; otherwise the boolean
\* mask builds a new table
returns_its_argument(period) == period = "all" \/ period \notin KnownPeriods

\* create_weekly_trends adding the week column without copying first
create_weekly_trends_leaves_no_copy(commits_df) ==
    [i \in DOMAIN commits_df |->
        commits_df[i] @@ [week |-> week_start(DayOf(commits_df[i].date))]]

\* the table handed to create_weekly_trends, after the call: the week
\* column is added to a copy (df = df.copy())
create_weekly_trends_leaves(commits_df) == commits_df

\* the table handed to create_enhanced_charts, after the call: date_only,
\* hour and day_of_week are added to copies (_d, _commits)
create_enhanced_charts_leaves(commits_core) == commits_core

\* the table handed to daily_timeseries_last_7, after the call: date_only
\* is assigned on a copy of the selection
daily_timeseries_last_7_leaves(commits_df) == commits_df

\* the table handed to weekly_timeseries_last_4, after the call:
\* week_start is assigned on a copy of the selection
weekly_timeseries_last_4_leaves(commits_df) == commits_df

\* the body of web_dashboard.main's loop for one period
dashboard_tab(commits_core, period) ==
    LET filtered == filter_commits_by_period(commits_core, period)
        period_commits == filtered.val
    IN  IF filtered.exc # "none"
        THEN [op |-> "tab", exc |-> filtered.exc]
        ELSE [op |-> "tab", exc |-> "none",
              period |-> period,
              period_commits |-> period_commits,
              weekly_trends |-> create_weekly_trends(period_commits),
              period_prod |->
                  _aggregate_productivity_from_commits(period_commits),
              daily |-> daily_by_dev(period_commits)]

\* what the loop body leaves in commits_core: period_commits is
\* commits_core itself when the filter returns its argument
dashboard_tab_leaves(commits_core, period) ==
    LET filtered == filter_commits_by_period(commits_core, period)
    IN  IF filtered.exc = "none" /\ returns_its_argument(period)
        THEN create_enhanced_charts_leaves(
                 create_weekly_trends_leaves(filtered.val))
        ELSE commits_core

\* author and instant of a commit of a queried table
QueryChoices ==
    {<<"developer1", AnchorDay * 24 + 17>>,
     <<"developer2", (AnchorDay - 2) * 24 + 9>>,
     <<"developer1", (AnchorDay - 29) * 24 + 17>>}

QueryTables ==
    {[i \in DOMAIN t |->
        GridRow(i, t[i][1], t[i][2],
                IF HourOf(t[i][2]) = 9 THEN "TRUE" ELSE "FALSE")] :
        t \in SeqsUpTo(QueryChoices, MaxRows - 1)}

QueryPeriods == {"all", "last_7_days", "current_month"}

InitQueries ==
    /\ cfg = PipelineConfig
    /\ phase = "loaded"
    /\ fetched = <<>>
    /\ combined = <<>>
    /\ out = [op |-> "none"]
    /\ message = <<>>
    /\ score = NotCalled
    /\ filter_df \in QueryTables
    /\ filter_period = "all"
    /\ calls = <<>>

\* one pass of the loop of web_dashboard.main
DashboardTab ==
    /\ Len(calls) < MaxCalls
    /\ \E period \in QueryPeriods :
          /\ filter_period' = period
          /\ out' = dashboard_tab(filter_df, period)
          /\ filter_df' = dashboard_tab_leaves(filter_df, period)
          /\ calls' = Append(calls, [op |-> "tab", period |-> period,
                                     input |-> filter_df, result |-> out',
                                     left |-> filter_df'])
    /\ UNCHANGED <<cfg, phase, fetched, combined, message, score>>

\* the reports of period_stats.main on the same table
PeriodStatsQuery ==
    /\ Len(calls) < MaxCalls
    /\ out' = period_stats_report(filter_df)
    /\ filter_df' = weekly_timeseries_last_4_leaves(
                        daily_timeseries_last_7_leaves(filter_df))
    /\ calls' = Append(calls, [op |-> "period_stats", period |-> "last_7_days",
                               input |-> filter_df, result |-> out',
                               left |-> filter_df'])
    /\ UNCHANGED <<cfg, phase, fetched, combined, message, score, filter_period>>

NextQueries == DashboardTab \/ PeriodStatsQuery

SpecQueries == InitQueries /\ [][NextQueries]_vars

(***************************************************************************)
(* Claims about repeated queries (checked under SpecQueries)               *)
(***************************************************************************)
\* what a query returns when it is the only one made on table df
Alone(call, df) ==
    IF call.op = "tab" THEN dashboard_tab(df, call.period)
    ELSE period_stats_report(df)

RescoreMessages ==
    {<<>>, <<"f">>, <<"F", "#", "1">>, <<"f", ":", " ", "f">>, FixMessage}

InitRescore ==
    /\ cfg \in ScoreConfigs
    /\ phase = "extract"
    /\ fetched = <<>>
    /\ combined = <<>>
    /\ out = [op |-> "none"]
    /\ message = <<>>
    /\ score = NotCalled
    /\ filter_df = <<>>
    /\ filter_period = "all"
    /\ calls = <<>>

\* one more call of score_commit_message on the same analyzer
ScoreAgain ==
    /\ Len(calls) < MaxCalls
    /\ \E m \in RescoreMessages :
          /\ message' = m
          /\ score' = score_commit_message(m)
          /\ calls' = Append(calls, [op |-> "score_commit_message",
                                     message |-> m, outcome |-> score'])
    /\ UNCHANGED <<cfg, phase, fetched, combined, out, filter_df, filter_period>>

NextRescore == ScoreAgain

SpecRescore == InitRescore /\ [][NextRescore]_vars

====
